---- MODULE Spec2Model ----
(***************************************************************************)
(* FlashcardMCP: the schema, validation and normalization pipeline of      *)
(* src/src/utils/json_validator.py (pydantic v2 models Card, Metadata,     *)
(* Style, FlashcardData; validate_json_structure; normalize_json_data).    *)
(*                                                                         *)
(* Python values are modelled as tagged records:                           *)
(*   None  -> [t |-> "null"]                                               *)
(*   str   -> [t |-> "str",  s |-> <<characters>>]                         *)
(*   bool  -> [t |-> "bool", b |-> TRUE/FALSE]                             *)
(*   int   -> [t |-> "int",  n |-> n]                                      *)
(*   list  -> [t |-> "list", items |-> <<items>>]                          *)
(*   dict  -> [t |-> "dict", map |-> function from keys to values]         *)
(* A str is a sequence of one-character strings so that str.strip(), the   *)
(* regular expressions and the f-string of the id backfill are computed    *)
(* character by character.  The value field is named after the type, so    *)
(* that values of different types are unequal and never compared inside.   *)
(***************************************************************************)
EXTENDS Integers, Sequences, FiniteSets, TLC

(***************************************************************************)
(* Bounds of the model.                                                    *)
(***************************************************************************)
MaxCards == 2
MaxFrontLen == 2

(***************************************************************************)
(* Python values.                                                          *)
(***************************************************************************)
JNone == [t |-> "null"]
JStr(s) == [t |-> "str", s |-> s]
JBool(b) == [t |-> "bool", b |-> b]
JInt(n) == [t |-> "int", n |-> n]
JList(l) == [t |-> "list", items |-> l]
JDict(m) == [t |-> "dict", map |-> m]
\* The text of an exception, str(e): a sequence of lines that are not inspected.
JText(lines) == [t |-> "text", lines |-> lines]
\* A datetime.datetime object: its date-time digits and its UTC offset (<<>> when naive).
JDatetime(body, offset) == [t |-> "datetime", body |-> body, offset |-> offset]

\* Marks a key that a dict literal leaves out; Only() builds the dict without it.
Absent == [t |-> "absent"]
Only(m) == [k \in {j \in DOMAIN m : m[j] # Absent} |-> m[k]]

IsStr(x) == x.t = "str"
IsDict(x) == x.t = "dict"
IsList(x) == x.t = "list"
Has(x, k) == k \in DOMAIN x.map

\* The mapping d with d[key] = value assigned.
WithKey(d, key, value) ==
    JDict([k \in DOMAIN d.map \cup {key} |-> IF k = key THEN value ELSE d.map[k]])

\* The outcome of a call: a returned value or a raised exception.
Return(value) == [raised |-> FALSE, value |-> value]
Raise(type, lines) == [raised |-> TRUE, exc |-> [type |-> type, text |-> lines]]
\* str(e)
StrOfException(e) == JText(e.text)

(***************************************************************************)
(* str helpers.                                                            *)
(***************************************************************************)
Whitespace == {" ", "\t", "\n"}

RECURSIVE LStrip(_)
LStrip(s) == IF s # <<>> /\ Head(s) \in Whitespace THEN LStrip(Tail(s)) ELSE s

RECURSIVE RStrip(_)
RStrip(s) ==
    IF s # <<>> /\ s[Len(s)] \in Whitespace THEN RStrip(SubSeq(s, 1, Len(s) - 1)) ELSE s

\* str.strip()
Strip(s) == RStrip(LStrip(s))

DigitChars == <<"0", "1", "2", "3", "4", "5", "6", "7", "8", "9">>
IsDigit(c) == \E i \in 1..10 : DigitChars[i] = c

\* str(n) for a natural number n
RECURSIVE DecStr(_)
DecStr(n) ==
    IF n < 10 THEN <<DigitChars[n + 1]>>
    ELSE DecStr(n \div 10) \o <<DigitChars[(n % 10) + 1]>>

\* s.startswith(p)
StartsWith(s, p) == Len(s) >= Len(p) /\ SubSeq(s, 1, Len(p)) = p

\* All strings over an alphabet up to a length.
RECURSIVE StrUpTo(_, _)
StrUpTo(alphabet, n) ==
    IF n = 0 THEN {<<>>}
    ELSE LET shorter == StrUpTo(alphabet, n - 1)
         IN  shorter \cup {Append(s, c) : s \in shorter, c \in alphabet}

(***************************************************************************)
(* Field validation results: a validated value or a list of error lines.   *)
(***************************************************************************)
Ok(val) == [ok |-> TRUE, val |-> val, errs |-> <<>>]
Err(line) == [ok |-> FALSE, val |-> JNone, errs |-> <<line>>]
Errs(lines) == [ok |-> FALSE, val |-> JNone, errs |-> lines]

\* A field annotated str: pydantic v2 accepts a str and does not coerce numbers.
ValidStr(x, line) == IF IsStr(x) THEN Ok(x) ELSE Err(line)

\* A field annotated Optional[str].
ValidOptionalStr(x, line) == IF x = JNone THEN Ok(JNone) ELSE ValidStr(x, line)

\* A field annotated List[str].
ValidStrList(x, line) ==
    IF ~IsList(x) THEN Err(line)
    ELSE IF \A i \in 1..Len(x.items) : IsStr(x.items[i]) THEN Ok(x)
    ELSE Err(line)

\* A field annotated bool (lax mode): a bool, or the ints 0 and 1.
ValidBool(x, line) ==
    IF x.t = "bool" THEN Ok(x)
    ELSE IF x.t = "int" /\ x.n \in {0, 1} THEN Ok(JBool(x.n = 1))
    ELSE Err(line)

\* int(s) for a str of decimal digits
RECURSIVE ParseInt(_)
ParseInt(s) ==
    IF s = <<>> THEN 0
    ELSE 10 * ParseInt(SubSeq(s, 1, Len(s) - 1))
         + (CHOOSE d \in 0..9 : DigitChars[d + 1] = s[Len(s)])

\* A field annotated Optional[int] (lax mode): None, an int, or a str of digits.
ValidOptionalInt(x, line) ==
    IF x = JNone THEN Ok(JNone)
    ELSE IF x.t = "int" THEN Ok(x)
    ELSE IF IsStr(x) /\ x.s # <<>> /\ \A i \in 1..Len(x.s) : IsDigit(x.s[i])
         THEN Ok(JInt(ParseInt(x.s)))
    ELSE Err(line)

\* The error lines of a sequence of results, in order.
RECURSIVE FlatErrs(_)
FlatErrs(rs) == IF rs = <<>> THEN <<>> ELSE Head(rs).errs \o FlatErrs(Tail(rs))

AllOk(rs) == \A i \in 1..Len(rs) : rs[i].ok

(***************************************************************************)
(* class Card(BaseModel)                                                   *)
(***************************************************************************)
\* Variant of check_empty_string that tests `not v` without strip().
check_empty_string_NoStrip(v) == IsStr(v) /\ v.s = <<>>

\* Card.check_empty_string (mode='before'): TRUE when it raises ValueError.
check_empty_string(v) == IsStr(v) /\ Strip(v.s) = <<>>

\* id: Optional[str] = None
CardId(d) ==
    IF Has(d, "id") THEN ValidOptionalStr(d.map["id"], "id: Input should be a valid string")
    ELSE Ok(JNone)

\* front: str = Field(..., min_length=1), after check_empty_string
CardFront(d) ==
    IF ~Has(d, "front") THEN Err("front: Field required")
    ELSE LET v == d.map["front"]
         IN  IF check_empty_string(v)
                THEN Err("front: Value error, string must not be empty or whitespace only")
             ELSE IF ~IsStr(v) THEN Err("front: Input should be a valid string")
             ELSE IF Len(v.s) < 1 THEN Err("front: String should have at least 1 character")
             ELSE Ok(v)

\* Variant of the back field declared required: back: str = Field(...).
CardBack_Required(d) ==
    IF Has(d, "back") THEN ValidStr(d.map["back"], "back: Input should be a valid string")
    ELSE Err("back: Field required")

\* back: str = ""
CardBack(d) ==
    IF Has(d, "back") THEN ValidStr(d.map["back"], "back: Input should be a valid string")
    ELSE Ok(JStr(<<>>))

\* tags: List[str] = Field(default_factory=list)
CardTags(d) ==
    IF Has(d, "tags") THEN ValidStrList(d.map["tags"], "tags: Input should be a valid list of strings")
    ELSE Ok(JList(<<>>))

\* Card(**d): the Card object, or the error lines of its fields.
Card(d) ==
    IF ~IsDict(d) THEN Err("Input should be a valid dictionary or instance of Card")
    ELSE LET rs == <<CardId(d), CardFront(d), CardBack(d), CardTags(d)>>
         IN  IF AllOk(rs)
                THEN Ok([id |-> rs[1].val, front |-> rs[2].val,
                         back |-> rs[3].val, tags |-> rs[4].val])
             ELSE Errs(FlatErrs(rs))

(***************************************************************************)
(* config.py: FLASHCARD_CONFIG (the entries the validator and the           *)
(* generators read).                                                       *)
(***************************************************************************)
Light == <<"l", "i", "g", "h", "t">>
Dark == <<"d", "a", "r", "k">>
Basic == <<"b", "a", "s", "i", "c">>
Advance == <<"a", "d", "v", "a", "n", "c", "e">>
Detail == <<"d", "e", "t", "a", "i", "l">>

\* The template names of available_templates and the extension of their files.
TemplateDefault == <<"d", "e", "f", "a", "u", "l", "t">>
TemplateMinimal == <<"m", "i", "n", "i", "m", "a", "l">>
TemplateListen == <<"l", "i", "s", "t", "e", "n">>
HtmlExt == <<".", "h", "t", "m", "l">>

\* The suffix of the key of a theme's entry: f"{theme}_theme_style".
ThemeStyleSuffix == <<"_", "t", "h", "e", "m", "e", "_", "s", "t", "y", "l", "e">>

\* config.py: FLASHCARD_CONFIG.  The entries "<theme>_theme_style" are kept
\* under theme_styles, keyed by their key in the dictionary.
FLASHCARD_CONFIG ==
    [available_themes |-> <<Light, Dark, Basic, Advance, Detail>>,
     available_templates |->
        [name \in {TemplateDefault, TemplateMinimal, TemplateListen} |->
            [file_path |-> name \o HtmlExt]],
     default_template_name |-> TemplateDefault,
     default_style |->
        [theme |-> JStr(Light),
         colors |->
            [primary |-> JStr(<<"#", "0", "0", "7", "b", "f", "f">>),
             secondary |-> JStr(<<"#", "6", "c", "7", "5", "7", "d">>),
             background |-> JStr(<<"#", "f", "f", "f", "f", "f", "f">>),
             text |-> JStr(<<"#", "3", "3", "3", "3", "3", "3">>),
             card_bg |-> JStr(<<"#", "f", "f", "f", "f", "f", "f">>),
             card_front_bg |-> JStr(<<"#", "f", "f", "f", "f", "f", "f">>),
             card_back_bg |-> JStr(<<"#", "f", "8", "f", "9", "f", "a">>),
             card_border |-> JStr(<<"#", "d", "d", "d", "d", "d", "d">>)],
         \* "Arial,  PingFang SC, Microsoft YaHei,  sans-serif"
         font |-> JStr(<<"A", "r", "i", "a", "l", ",", " ", " ", "P", "i", "n", "g", "F", "a", "n", "g", " ", "S", "C", ",", " ", "M", "i", "c", "r", "o", "s", "o", "f", "t", " ", "Y", "a", "H", "e", "i", ",", " ", " ", "s", "a", "n", "s", "-", "s", "e", "r", "i", "f">>),
         compact_typography |-> JBool(TRUE),
         show_deck_name |-> JBool(FALSE),
         show_card_index |-> JBool(FALSE),
         show_tags |-> JBool(FALSE),
         front_char_limit |-> JInt(180),
         back_char_limit |-> JInt(380),
         card_height |-> JStr(<<"1", "0", "5", "m", "m">>),
         card_width |-> JStr(<<"7", "4", ".", "2", "5", "m", "m">>),
         \* "font-weight:600; font-size:14px;"
         deck_name_style |-> JStr(<<"f", "o", "n", "t", "-", "w", "e", "i", "g", "h", "t", ":", "6", "0", "0", ";", " ", "f", "o", "n", "t", "-", "s", "i", "z", "e", ":", "1", "4", "p", "x", ";">>),
         \* "position:absolute; top:6px; right:8px; font-size:12px;"
         card_index_style |-> JStr(<<"p", "o", "s", "i", "t", "i", "o", "n", ":", "a", "b", "s", "o", "l", "u", "t", "e", ";", " ", "t", "o", "p", ":", "6", "p", "x", ";", " ", "r", "i", "g", "h", "t", ":", "8", "p", "x", ";", " ", "f", "o", "n", "t", "-", "s", "i", "z", "e", ":", "1", "2", "p", "x", ";">>)],
     theme_styles |->
        [key \in {theme \o ThemeStyleSuffix : theme \in {Dark, Basic, Advance, Detail}} |->
            IF key = Dark \o ThemeStyleSuffix
               THEN [theme |-> JStr(Dark),
                     colors |->
                        [primary |-> JStr(<<"#", "0", "0", "7", "b", "f", "f">>),
                         secondary |-> JStr(<<"#", "6", "c", "7", "5", "7", "d">>),
                         background |-> JStr(<<"#", "1", "a", "1", "a", "1", "a">>),
                         text |-> JStr(<<"#", "f", "f", "f", "f", "f", "f">>),
                         card_bg |-> JStr(<<"#", "2", "d", "2", "d", "2", "d">>),
                         card_border |-> JStr(<<"#", "4", "4", "4", "4", "4", "4">>),
                         card_front_bg |-> JStr(<<"#", "2", "d", "2", "d", "2", "d">>),
                         card_back_bg |-> JStr(<<"#", "2", "d", "2", "d", "2", "d">>)]]
            ELSE IF key = Basic \o ThemeStyleSuffix
               THEN [theme |-> JStr(Basic),
                     colors |->
                        [primary |-> JStr(<<"#", "4", "c", "a", "f", "5", "0">>),
                         secondary |-> JStr(<<"#", "8", "1", "c", "7", "8", "4">>),
                         background |-> JStr(<<"#", "f", "5", "f", "5", "f", "5">>),
                         text |-> JStr(<<"#", "4", "2", "4", "2", "4", "2">>),
                         card_bg |-> JStr(<<"#", "f", "0", "f", "0", "f", "0">>),
                         card_border |-> JStr(<<"#", "c", "c", "c", "c", "c", "c">>),
                         card_front_bg |-> JStr(<<"#", "f", "0", "f", "0", "f", "0">>),
                         card_back_bg |-> JStr(<<"#", "f", "0", "f", "0", "f", "0">>)]]
            ELSE IF key = Advance \o ThemeStyleSuffix
               THEN [theme |-> JStr(Advance),
                     colors |->
                        [primary |-> JStr(<<"#", "f", "f", "9", "8", "0", "0">>),
                         secondary |-> JStr(<<"#", "f", "f", "b", "7", "4", "d">>),
                         background |-> JStr(<<"#", "f", "f", "f", "d", "e", "7">>),
                         text |-> JStr(<<"#", "5", "d", "4", "0", "3", "7">>),
                         card_bg |-> JStr(<<"#", "f", "f", "f", "8", "e", "1">>),
                         card_border |-> JStr(<<"#", "b", "c", "a", "a", "a", "4">>),
                         card_front_bg |-> JStr(<<"#", "f", "f", "f", "8", "e", "1">>),
                         card_back_bg |-> JStr(<<"#", "f", "f", "f", "8", "e", "1">>)]]
            ELSE [theme |-> JStr(Detail),
                     colors |->
                        [primary |-> JStr(<<"#", "2", "1", "9", "6", "f", "3">>),
                         secondary |-> JStr(<<"#", "6", "4", "b", "5", "f", "6">>),
                         background |-> JStr(<<"#", "e", "1", "f", "5", "f", "e">>),
                         text |-> JStr(<<"#", "1", "9", "7", "6", "d", "2">>),
                         card_bg |-> JStr(<<"#", "e", "3", "f", "2", "f", "d">>),
                         card_border |-> JStr(<<"#", "9", "0", "c", "a", "f", "9">>),
                         card_front_bg |-> JStr(<<"#", "e", "3", "f", "2", "f", "d">>),
                         card_back_bg |-> JStr(<<"#", "e", "3", "f", "2", "f", "d">>)]]]]

\* config.py: JSON_VALIDATION_CONFIG
JSON_VALIDATION_CONFIG ==
    [max_cards |-> 1000,
     max_content_length |-> 10000,
     max_tags_per_card |-> 10,
     max_tag_length |-> 50]

(***************************************************************************)
(* class Metadata(BaseModel)                                               *)
(***************************************************************************)
\* "YYYY-MM-DDTHH:MM:SS": the digits are not range-checked.
IsDateTimeBody(b) ==
    /\ Len(b) = 19
    /\ \A i \in 1..19 :
          IF i \in {5, 8} THEN b[i] = "-"
          ELSE IF i = 11 THEN b[i] = "T"
          ELSE IF i \in {14, 17} THEN b[i] = ":"
          ELSE IsDigit(b[i])

\* "+HH:MM" or "-HH:MM"
IsUtcOffset(o) ==
    /\ Len(o) = 6
    /\ o[1] \in {"+", "-"}
    /\ o[4] = ":"
    /\ \A i \in {2, 3, 5, 6} : IsDigit(o[i])

UtcOffsetZero == <<"+", "0", "0", ":", "0", "0">>

\* A field annotated Optional[datetime]: None, or an ISO-8601 str with second
\* precision that is naive, ends in "Z" or ends in a numeric offset.  Other str
\* values, lists and dicts are rejected (numbers, which pydantic reads as
\* timestamps, are not among the inputs of this model).
ValidOptionalDatetime(x, line) ==
    IF x = JNone THEN Ok(JNone)
    ELSE IF IsStr(x) /\ Len(x.s) >= 19 /\ IsDateTimeBody(SubSeq(x.s, 1, 19))
         THEN LET body == SubSeq(x.s, 1, 19)
                  rest == SubSeq(x.s, 20, Len(x.s))
              IN  IF rest = <<>> THEN Ok(JDatetime(body, <<>>))
                  ELSE IF rest = <<"Z">> THEN Ok(JDatetime(body, UtcOffsetZero))
                  ELSE IF IsUtcOffset(rest) THEN Ok(JDatetime(body, rest))
                  ELSE Err(line)
    ELSE Err(line)

\* datetime.isoformat()
isoformat(dt) == JStr(dt.body \o dt.offset)

MetadataDefaults ==
    [title |-> JStr(<<"F", "l", "a", "s", "h", "C", "a", "r", "d">>),
     description |-> JStr(<<>>),
     version |-> JStr(<<"1", ".", "0", ".", "0">>),
     created_at |-> JNone]

MetadataField(d, k) ==
    IF ~Has(d, k) THEN Ok(MetadataDefaults[k])
    ELSE IF k = "created_at"
         THEN ValidOptionalDatetime(d.map[k], "created_at: Input should be a valid datetime")
    ELSE ValidStr(d.map[k], "metadata: Input should be a valid string")

\* Metadata(**d); keys that are not fields are ignored.
Metadata(d) ==
    IF ~IsDict(d) THEN Err("Input should be a valid dictionary or instance of Metadata")
    ELSE LET rs == <<MetadataField(d, "title"), MetadataField(d, "description"),
                     MetadataField(d, "version"), MetadataField(d, "created_at")>>
         IN  IF AllOk(rs)
                THEN Ok([title |-> rs[1].val, description |-> rs[2].val,
                         version |-> rs[3].val, created_at |-> rs[4].val])
             ELSE Errs(FlatErrs(rs))

(***************************************************************************)
(* class Style(BaseModel)                                                  *)
(***************************************************************************)
EndsWith(s, u) == Len(s) >= Len(u) /\ SubSeq(s, Len(s) - Len(u) + 1, Len(s)) = u

\* \d+
IsDigits(s) == s # <<>> /\ \A i \in 1..Len(s) : IsDigit(s[i])

\* \d+(\.\d+)?
IsNumber(s) ==
    \/ IsDigits(s)
    \/ \E i \in 2..(Len(s) - 1) :
          s[i] = "." /\ IsDigits(SubSeq(s, 1, i - 1)) /\ IsDigits(SubSeq(s, i + 1, Len(s)))

\* \d+(\.\d+)?(u1|u2|...)
IsNumberWithUnit(s, units) ==
    \E u \in units : EndsWith(s, u) /\ IsNumber(SubSeq(s, 1, Len(s) - Len(u)))

DimensionUnits ==
    {<<"p", "x">>, <<"%">>, <<"e", "m">>, <<"r", "e", "m">>, <<"v", "w">>, <<"v", "h">>,
     <<"m", "m">>, <<"c", "m">>, <<"i", "n">>, <<"p", "t">>}

CssLengthUnits == {<<"p", "x">>, <<"%">>, <<"e", "m">>, <<"r", "e", "m">>}

\* The maximal runs of non-whitespace characters of s, in order.
RECURSIVE SplitWhitespace(_)
SplitWhitespace(s) ==
    LET t == LStrip(s)
        n == IF \E i \in 1..Len(t) : t[i] \in Whitespace
                THEN (CHOOSE i \in 1..Len(t) :
                         t[i] \in Whitespace /\ \A j \in 1..(i - 1) : t[j] \notin Whitespace) - 1
             ELSE Len(t)
    IN  IF t = <<>> THEN <<>>
        ELSE <<SubSeq(t, 1, n)>> \o SplitWhitespace(SubSeq(t, n + 1, Len(t)))

\* re.match(r'^\d+(\.\d+)?(px|%|em|rem|vw|vh|mm|cm|in|pt)$', s) for s without a newline
MatchesDimension(s) == IsNumberWithUnit(s, DimensionUnits)

\* re.match(r'^\d+(\.\d+)?(px|%|em|rem)(\s+\d+(\.\d+)?(px|%|em|rem))*$', s), same
MatchesCssLength(s) ==
    LET parts == SplitWhitespace(s)
    IN  /\ s = Strip(s)
        /\ parts # <<>>
        /\ \A i \in 1..Len(parts) : IsNumberWithUnit(parts[i], CssLengthUnits)

\* Variant of validate_theme that accepts every theme name.
validate_theme_AnyName(v) == Ok(v)

\* Style.validate_theme
validate_theme(v) ==
    IF \E i \in 1..Len(FLASHCARD_CONFIG.available_themes) :
          FLASHCARD_CONFIG.available_themes[i] = v.s
       THEN Ok(v)
    ELSE Err("theme: Value error, invalid theme")

\* Style.validate_font
validate_font(v) ==
    IF v.s = <<>> THEN Err("Value error, font value must be a string")
    ELSE Ok(JStr(Strip(v.s)))

\* Style.validate_background
validate_background(v) ==
    IF v.s = <<>> THEN Err("Value error, background value must be a string")
    ELSE Ok(JStr(Strip(v.s)))

\* Style.validate_dimensions
validate_dimensions(v) ==
    IF MatchesDimension(Strip(v.s)) THEN Ok(JStr(Strip(v.s)))
    ELSE Err("Value error, invalid dimension format")

\* Style.validate_border
validate_border(v) ==
    IF v.s = <<>> THEN Err("Value error, border value must be a string")
    ELSE Ok(JStr(Strip(v.s)))

\* Style.validate_css_length
validate_css_length(v) ==
    IF MatchesCssLength(Strip(v.s)) THEN Ok(JStr(Strip(v.s)))
    ELSE Err("Value error, invalid CSS length format")

valid_aligns ==
    {<<"l", "e", "f", "t">>, <<"c", "e", "n", "t", "e", "r">>, <<"r", "i", "g", "h", "t">>, <<"j", "u", "s", "t", "i", "f", "y">>, <<"s", "t", "a", "r", "t">>, <<"e", "n", "d">>}

\* Style.validate_text_align
validate_text_align(v) ==
    IF v.s \in valid_aligns THEN Ok(v)
    ELSE Err("Value error, invalid text align value")

\* The fields of class Style with their defaults, in declaration order.
StyleKeys ==
    <<"template", "theme", "colors", "font", "card_front_font", "card_back_font",
      "card_width", "card_height", "card_front_background", "card_back_background",
      "card_front_text_align", "card_back_text_align", "card_border",
      "card_border_radius", "card_padding", "card_box_shadow", "show_deck_name",
      "show_card_index", "deck_name_style", "card_index_style", "compact_typography",
      "front_char_limit", "back_char_limit">>

StyleDefaults ==
    [template |-> JStr(<<"m", "i", "n", "i", "m", "a", "l">>),
     theme |-> JStr(Light),
     colors |-> JDict(<<>>),
     \* "Arial,  PingFang SC, Microsoft YaHei,  sans-serif"
     font |-> JStr(<<"A", "r", "i", "a", "l", ",", " ", " ", "P", "i", "n", "g", "F", "a", "n", "g", " ", "S", "C", ",", " ", "M", "i", "c", "r", "o", "s", "o", "f", "t", " ", "Y", "a", "H", "e", "i", ",", " ", " ", "s", "a", "n", "s", "-", "s", "e", "r", "i", "f">>),
     \* "24px/1.2 Arial, sans-serif, "
     card_front_font |-> JStr(<<"2", "4", "p", "x", "/", "1", ".", "2", " ", "A", "r", "i", "a", "l", ",", " ", "s", "a", "n", "s", "-", "s", "e", "r", "i", "f", ",", " ">>),
     \* "18px/1.2 Arial, sans-serif"
     card_back_font |-> JStr(<<"1", "8", "p", "x", "/", "1", ".", "2", " ", "A", "r", "i", "a", "l", ",", " ", "s", "a", "n", "s", "-", "s", "e", "r", "i", "f">>),
     card_width |-> JStr(<<"7", "4", ".", "2", "5", "m", "m">>),
     card_height |-> JStr(<<"1", "0", "5", "m", "m">>),
     card_front_background |-> JStr(<<"#", "f", "f", "f", "f", "f", "f">>),
     card_back_background |-> JStr(<<"#", "f", "5", "f", "5", "f", "5">>),
     card_front_text_align |-> JStr(<<"c", "e", "n", "t", "e", "r">>),
     card_back_text_align |-> JStr(<<"c", "e", "n", "t", "e", "r">>),
     \* "1px solid #dddddd"
     card_border |-> JStr(<<"1", "p", "x", " ", "s", "o", "l", "i", "d", " ", "#", "d", "d", "d", "d", "d", "d">>),
     card_border_radius |-> JStr(<<"8", "p", "x">>),
     card_padding |-> JStr(<<"2", "0", "p", "x">>),
     \* "0 2px 4px rgba(0,0,0,0.1)"
     card_box_shadow |-> JStr(<<"0", " ", "2", "p", "x", " ", "4", "p", "x", " ", "r", "g", "b", "a", "(", "0", ",", "0", ",", "0", ",", "0", ".", "1", ")">>),
     show_deck_name |-> JBool(FALSE),
     show_card_index |-> JBool(FALSE),
     deck_name_style |-> JStr(<<>>),
     card_index_style |-> JStr(<<>>),
     compact_typography |-> JBool(TRUE),
     front_char_limit |-> JInt(180),
     back_char_limit |-> JInt(380)]

\* The type of a field, then its field_validator (run only when the type is valid).
StyleValue(k, x) ==
    IF k \in {"show_deck_name", "show_card_index", "compact_typography"}
       THEN ValidBool(x, "style: Input should be a valid boolean")
    ELSE IF k \in {"front_char_limit", "back_char_limit"}
       THEN ValidOptionalInt(x, "style: Input should be a valid integer")
    ELSE IF k = "colors"
       THEN IF IsDict(x) THEN Ok(x) ELSE Err("colors: Input should be a valid dictionary")
    ELSE IF ~IsStr(x) THEN Err("style: Input should be a valid string")
    ELSE IF k = "theme" THEN validate_theme(x)
    ELSE IF k \in {"font", "card_front_font", "card_back_font"} THEN validate_font(x)
    ELSE IF k \in {"card_front_background", "card_back_background"} THEN validate_background(x)
    ELSE IF k \in {"card_width", "card_height"} THEN validate_dimensions(x)
    ELSE IF k = "card_border" THEN validate_border(x)
    ELSE IF k \in {"card_border_radius", "card_padding"} THEN validate_css_length(x)
    ELSE IF k \in {"card_front_text_align", "card_back_text_align"} THEN validate_text_align(x)
    ELSE Ok(x)

\* A field the input leaves out takes its default, which is not validated.
StyleField(d, k) == IF Has(d, k) THEN StyleValue(k, d.map[k]) ELSE Ok(StyleDefaults[k])

\* The Style object built from the validation results rs of its fields, in the
\* order of StyleKeys, or the errors they reported.
StyleFields(rs) ==
    IF AllOk(rs)
       THEN Ok([k \in DOMAIN StyleDefaults |->
                   rs[CHOOSE i \in 1..Len(StyleKeys) : StyleKeys[i] = k].val])
    ELSE Errs(FlatErrs(rs))

\* Variant of Style with extra='forbid': a key that is not a field is an error.
Style_ForbidExtra(d) ==
    IF ~IsDict(d) THEN Err("Input should be a valid dictionary or instance of Style")
    ELSE IF \E k \in DOMAIN d.map : \A i \in 1..Len(StyleKeys) : StyleKeys[i] # k
       THEN Err("style: Extra inputs are not permitted")
    ELSE StyleFields([i \in 1..Len(StyleKeys) |-> StyleField(d, StyleKeys[i])])
\* Style(**d); keys that are not fields are ignored.
Style(d) ==
    IF ~IsDict(d) THEN Err("Input should be a valid dictionary or instance of Style")
    ELSE StyleFields([i \in 1..Len(StyleKeys) |-> StyleField(d, StyleKeys[i])])

(***************************************************************************)
(* class FlashcardData(BaseModel)                                          *)
(***************************************************************************)
\* Variant of check_cards_not_empty that accepts every list.
check_cards_not_empty_Never(v) == FALSE

\* FlashcardData.check_cards_not_empty: TRUE when it raises ValueError.
check_cards_not_empty(v) == v = <<>>

\* cards: List[Card], then check_cards_not_empty
DataCards(d) ==
    IF ~Has(d, "cards") THEN Err("cards: Field required")
    ELSE IF ~IsList(d.map["cards"]) THEN Err("cards: Input should be a valid list")
    ELSE LET rs == [i \in 1..Len(d.map["cards"].items) |-> Card(d.map["cards"].items[i])]
         IN  IF ~AllOk(rs) THEN Errs(FlatErrs(rs))
             ELSE IF check_cards_not_empty(rs)
                THEN Err("cards: Value error, the flashcard list must not be empty")
             ELSE Ok([i \in 1..Len(rs) |-> rs[i].val])

\* metadata: Optional[Metadata] = Field(default_factory=Metadata)
DataMetadata(d) ==
    IF ~Has(d, "metadata") THEN Ok(MetadataDefaults)
    ELSE IF d.map["metadata"] = JNone THEN Ok(JNone)
    ELSE Metadata(d.map["metadata"])

\* style: Optional[Style] = Field(default_factory=Style)
DataStyle(d) ==
    IF ~Has(d, "style") THEN Ok(StyleDefaults)
    ELSE IF d.map["style"] = JNone THEN Ok(JNone)
    ELSE Style(d.map["style"])

\* The FlashcardData object built from the validation results rs of cards,
\* metadata and style, or the ValidationError that collects their errors.
FlashcardDataFields(rs) ==
    IF AllOk(rs)
       THEN Return([cards |-> rs[1].val, metadata |-> rs[2].val, style |-> rs[3].val])
    ELSE Raise("ValidationError",
               <<"validation errors for FlashcardData">> \o FlatErrs(rs))

\* FlashcardData(**json_data): returns the model object, raises TypeError when
\* json_data is not a mapping and ValidationError when a field is invalid.
FlashcardData(json_data) ==
    IF ~IsDict(json_data)
       THEN Raise("TypeError", <<"argument after ** must be a mapping">>)
    ELSE FlashcardDataFields(<<DataCards(json_data), DataMetadata(json_data),
                               DataStyle(json_data)>>)

(***************************************************************************)
(* validate_json_structure                                                 *)
(***************************************************************************)
\* Variant of the handler that catches pydantic's ValidationError only.
IsException_ValidationErrorOnly(e) == e.type = "ValidationError"

\* except Exception: every exception FlashcardData raises is an Exception.
IsException(e) == e.type \in {"TypeError", "ValidationError"}

validate_json_structure(json_data) ==
    LET validated_data == FlashcardData(json_data)
    IN  IF ~validated_data.raised
           THEN Return(JDict([is_valid |-> JBool(TRUE), error |-> JNone]))
        ELSE IF IsException(validated_data.exc)
           THEN Return(JDict([is_valid |-> JBool(FALSE),
                              error |-> StrOfException(validated_data.exc)]))
        ELSE validated_data

(***************************************************************************)
(* normalize_json_data                                                     *)
(***************************************************************************)
CardPrefix == <<"c", "a", "r", "d", "-">>

\* Variant of the generated id that uses the 0-based position: f"card-{i}".
GeneratedId_ZeroBased(i) == JStr(CardPrefix \o DecStr(i))

\* f"card-{i + 1}" for the 0-based position i
GeneratedId(i) == JStr(CardPrefix \o DecStr(i + 1))

\* for i, card in enumerate(cards): if card.id is None: card.id = f"card-{i + 1}"
FillIds(cards) ==
    [k \in 1..Len(cards) |->
        IF cards[k].id = JNone THEN [cards[k] EXCEPT !.id = GeneratedId(k - 1)]
        ELSE cards[k]]

\* BaseModel.model_dump(): the model and its sub-models as dicts
model_dump(data) ==
    [cards |-> JList([k \in 1..Len(data.cards) |-> JDict(data.cards[k])]),
     metadata |-> IF data.metadata = JNone THEN JNone ELSE JDict(data.metadata),
     style |-> IF data.style = JNone THEN JNone ELSE JDict(data.style)]

\* result['metadata']['created_at'] = created_at.isoformat() when it is a datetime
SerializeCreatedAt(result) ==
    IF result.metadata # JNone /\ result.metadata.map.created_at # JNone
          /\ result.metadata.map.created_at.t = "datetime"
       THEN [result EXCEPT !.metadata =
                JDict([result.metadata.map EXCEPT !.created_at = isoformat(@)])]
    ELSE result

\* Variant of normalize_json_data that hands the input back when construction fails.
normalize_json_data_Lenient(json_data) ==
    LET flashcard_data == FlashcardData(json_data)
    IN  IF flashcard_data.raised THEN Return(json_data)
        ELSE LET filled == [flashcard_data.value EXCEPT !.cards = FillIds(@)]
             IN  Return(JDict(SerializeCreatedAt(model_dump(filled))))

normalize_json_data(json_data) ==
    LET flashcard_data == FlashcardData(json_data)
    IN  IF flashcard_data.raised THEN flashcard_data
        ELSE LET filled == [flashcard_data.value EXCEPT !.cards = FillIds(@)]
             IN  Return(JDict(SerializeCreatedAt(model_dump(filled))))

(***************************************************************************)
(* handlers/card_generator.py: generate_flashcards                         *)
(*                                                                         *)
(* files is the set of file names present in the templates directory.  A   *)
(* rendering keeps what the template receives of the template, the title,  *)
(* the card ids, the theme and the colors; Markdown conversion and the     *)
(* template's own text are outside the model.                              *)
(***************************************************************************)
\* The template text defined in the module itself.
get_inline_template == [inline |-> TRUE, file_path |-> <<>>]

\* The text read from a file of the templates directory.
ReadTemplate(template_file) == [inline |-> FALSE, file_path |-> template_file]

\* template_file from available_templates, template_content from the file when
\* it exists, get_inline_template() otherwise.
ResolveTemplate(template, files) ==
    LET available_templates == FLASHCARD_CONFIG.available_templates
    IN  IF template.s \in DOMAIN available_templates
              /\ available_templates[template.s].file_path \in files
           THEN Return(ReadTemplate(available_templates[template.s].file_path))
        ELSE Return(get_inline_template)

\* default_colors of render_flashcard_template
default_colors(theme) ==
    [primary |-> <<"#", "0", "0", "7", "b", "f", "f">>,
     secondary |-> <<"#", "6", "c", "7", "5", "7", "d">>,
     background |-> IF theme # JStr(Dark) THEN <<"#", "f", "f", "f", "f", "f", "f">> ELSE <<"#", "1", "a", "1", "a", "1", "a">>,
     text |-> IF theme # JStr(Dark) THEN <<"#", "3", "3", "3", "3", "3", "3">> ELSE <<"#", "f", "f", "f", "f", "f", "f">>,
     card_bg |-> IF theme # JStr(Dark) THEN <<"#", "f", "f", "f", "f", "f", "f">> ELSE <<"#", "2", "d", "2", "d", "2", "d">>,
     card_front_bg |-> <<"#", "f", "f", "f", "f", "f", "f">>,
     card_back_bg |-> <<"#", "f", "5", "f", "5", "f", "5">>,
     card_border |-> IF theme # JStr(Dark) THEN <<"#", "d", "d", "d", "d", "d", "d">> ELSE <<"#", "4", "4", "4", "4", "4", "4">>]

\* color_value.startswith('#') is called on a value that is not a str
HasNonStrColor(theme, colors) ==
    \E key \in DOMAIN default_colors(theme) :
        key \in DOMAIN colors.map /\ ~IsStr(colors.map[key])

\* the merge of the user's colors into default_colors
MergedColors(theme, colors) ==
    [key \in DOMAIN default_colors(theme) |->
        IF key \in DOMAIN colors.map
           THEN IF StartsWith(colors.map[key].s, <<"#">>) THEN colors.map[key].s
                ELSE <<"#">> \o colors.map[key].s
        ELSE default_colors(theme)[key]]

\* The colour entries of the context handed to the template: five come from
\* the merged default_colors, three from the style's CSS values.
HtmlContextColors(style_params, merged) ==
    [primary_color |-> JStr(merged.primary),
     secondary_color |-> JStr(merged.secondary),
     background_color |-> JStr(merged.background),
     text_color |-> JStr(merged.text),
     card_bg |-> JStr(merged.card_bg),
     card_front_bg |-> style_params.map["card_front_background"],
     card_back_bg |-> style_params.map["card_back_background"],
     card_border |-> style_params.map["card_border"]]

render_flashcard_template(title, cards, template, style_params, files) ==
    LET template_content == ResolveTemplate(template, files)
        theme == style_params.map["theme"]
        colors == style_params.map["colors"]
    IN  IF template_content.raised THEN template_content
        ELSE IF HasNonStrColor(theme, colors)
           THEN Raise("AttributeError", <<"object has no attribute 'startswith'">>)
        ELSE Return([template_content |-> template_content.value,
                     title |-> title,
                     cards |-> [k \in 1..Len(cards) |-> cards[k].map["id"]],
                     theme |-> theme,
                     colors |-> HtmlContextColors(style_params, MergedColors(theme, colors))])

\* Variant of generate_flashcards that does not look at the validation result.
GenerateFrom_NoGate(validation_result, normalized_data, files) ==
    IF normalized_data.raised THEN normalized_data
    ELSE IF normalized_data.value.map["metadata"] = JNone
               \/ normalized_data.value.map["style"] = JNone
       THEN Raise("AttributeError", <<"'NoneType' object has no attribute 'get'">>)
    ELSE render_flashcard_template(
             normalized_data.value.map["metadata"].map["title"],
             normalized_data.value.map["cards"].items,
             normalized_data.value.map["style"].map["template"],
             normalized_data.value.map["style"],
             files)
\* generate_flashcards after its two calls: validation_result is what
\* validate_json_structure returned, normalized_data what normalize_json_data
\* returns or raises once the validation check has passed.
GenerateFrom(validation_result, normalized_data, files) ==
    IF validation_result.raised THEN validation_result
    ELSE IF ~validation_result.value.map["is_valid"].b
       THEN Raise("ValueError", validation_result.value.map["error"].lines)
    ELSE IF normalized_data.raised THEN normalized_data
    ELSE IF normalized_data.value.map["metadata"] = JNone
               \/ normalized_data.value.map["style"] = JNone
       THEN Raise("AttributeError", <<"'NoneType' object has no attribute 'get'">>)
    ELSE render_flashcard_template(
             normalized_data.value.map["metadata"].map["title"],
             normalized_data.value.map["cards"].items,
             normalized_data.value.map["style"].map["template"],
             normalized_data.value.map["style"],
             files)

\* Each of the two calls is evaluated once and its result handed on.
generate_flashcards(json_data, files) ==
    CHOOSE outcome \in
        {GenerateFrom(validation_result, normalized_data, files) :
            validation_result \in {validate_json_structure(json_data)},
            normalized_data \in {normalize_json_data(json_data)}} : TRUE

(***************************************************************************)
(* handlers/pdf_generator.py: generate_flashcards_pdf                      *)
(*                                                                         *)
(* The call yields its outcome and the renderings it handed to the         *)
(* template before the outcome was known.  The headless browser is outside *)
(* the model: pdf_bytes says whether it produced a document.               *)
(***************************************************************************)
PdfTemplate == <<"p", "l", "a", "y", "w", "r", "i", "g", "h", "t", "_", "c", "a", "r", "d", "_", "t", "e", "m", "p", "l", "a", "t", "e", ".", "h", "t", "m", "l">>

\* title_str when the document has no metadata (an ASCII gloss of the literal)
DefaultPdfTitle == <<"F", "l", "a", "s", "h", "c", "a", "r", "d", "s">>

\* Variant of theme_class that knows the color themes only.
ThemeClass_ColorThemesOnly(theme) ==
    IF theme = JStr(Dark) THEN <<"t", "h", "e", "m", "e", "-", "d", "a", "r", "k">> ELSE <<"t", "h", "e", "m", "e", "-", "l", "i", "g", "h", "t">>
\* theme_class
ThemeClass(theme) ==
    IF theme \in {JStr(Basic), JStr(Advance), JStr(Detail)} THEN <<"t", "h", "e", "m", "e", "-">> \o theme.s
    ELSE IF theme = JStr(Dark) THEN <<"t", "h", "e", "m", "e", "-", "d", "a", "r", "k">>
    ELSE <<"t", "h", "e", "m", "e", "-", "l", "i", "g", "h", "t">>

\* try: data = FlashcardData(**flashcard_data) except Exception as e: raise ValueError
PdfData(flashcard_data) ==
    LET data == FlashcardData(flashcard_data)
    IN  IF ~data.raised THEN data
        ELSE Raise("ValueError", <<"data validation failed">> \o data.exc.text)

\* dict.get(key, default) on a mapping with string keys
Lookup(d, key, default) == IF key \in DOMAIN d THEN d[key] ELSE default

\* dict.setdefault(key, value)
SetDefault(d, key, value) ==
    IF key \in DOMAIN d THEN d
    ELSE [k \in DOMAIN d \cup {key} |-> IF k = key THEN value ELSE d[k]]

\* bool(x)
bool(x) ==
    IF x.t = "bool" THEN x.b
    ELSE IF x.t = "int" THEN x.n # 0
    ELSE IF x.t = "str" THEN x.s # <<>>
    ELSE IF x.t = "list" THEN x.items # <<>>
    ELSE IF x.t = "dict" THEN DOMAIN x.map # {}
    ELSE FALSE

\* markdown_parser.parse(text) followed by inline_images_in_html: the HTML of
\* a card side, kept as the text it was made from.
ProcessedSide(text) == [parsed |-> TRUE, text |-> text.s]

\* the side of a blank card: the empty str
BlankSide == [parsed |-> FALSE, text |-> <<>>]

\* Variant of the padding that adds a page of blank cards to a full last page.
BlankCardsNeeded_FullPage(total_cards, layout) ==
    IF layout = "a4_8" THEN 8 - (total_cards % 8) ELSE 0

\* blank_cards_needed for the a4_8 layout, no blank card otherwise
BlankCardsNeeded(total_cards, layout) ==
    IF layout = "a4_8" /\ total_cards % 8 # 0 THEN 8 - (total_cards % 8) ELSE 0

\* processed_cards: the cards of the deck, then the blank cards
ProcessedCards(cards, layout) ==
    [k \in 1..Len(cards) |->
        [front |-> ProcessedSide(cards[k].front), back |-> ProcessedSide(cards[k].back)]]
    \o [k \in 1..BlankCardsNeeded(Len(cards), layout) |->
           [front |-> BlankSide, back |-> BlankSide]]

\* style_params after the setdefault calls; style is data.style
PdfStyleParams(style, layout) ==
    LET default_style == FLASHCARD_CONFIG.default_style
        dumped == IF style # JNone THEN style ELSE <<>>
        with_colors == SetDefault(dumped, "colors", JDict(<<>>))
        with_title == SetDefault(with_colors, "show_title",
                                 Lookup(default_style, "show_title", JBool(FALSE)))
        with_page == SetDefault(with_title, "show_page_number",
                                Lookup(default_style, "show_page_number", JBool(TRUE)))
        with_deck == SetDefault(with_page, "deck_name_style",
                                Lookup(default_style, "deck_name_style", JStr(<<>>)))
        with_index == SetDefault(with_deck, "card_index_style",
                                 Lookup(default_style, "card_index_style", JStr(<<>>)))
        with_number == SetDefault(with_index, "page_number_style",
                                  Lookup(default_style, "page_number_style", JStr(<<>>)))
    IN  SetDefault(with_number, "layout", JStr(layout))

\* theme_config.get('colors', ...): the colors of the theme's entry of
\* FLASHCARD_CONFIG, those of default_style when the theme has no entry
ThemeColors(theme) ==
    LET theme_style_key == theme.s \o ThemeStyleSuffix
    IN  IF theme_style_key \in DOMAIN FLASHCARD_CONFIG.theme_styles
           THEN FLASHCARD_CONFIG.theme_styles[theme_style_key].colors
        ELSE FLASHCARD_CONFIG.default_style.colors

\* val with "#" put in front when it is a str that does not start with "#"
NormalizedColor(val) ==
    IF IsStr(val) /\ ~StartsWith(val.s, <<"#">>) THEN JStr(<<"#">> \o val.s) ELSE val

\* default_colors after the loop over user_colors
PdfMergedColors(theme, user_colors) ==
    [key \in DOMAIN ThemeColors(theme) \cup DOMAIN user_colors |->
        IF key \in DOMAIN user_colors THEN NormalizedColor(user_colors[key])
        ELSE ThemeColors(theme)[key]]

\* The colour entries of the context handed to the template.
PdfContextColors(style_params, merged) ==
    [primary_color |-> Lookup(merged, "primary", JNone),
     secondary_color |-> Lookup(merged, "secondary", JNone),
     background_color |-> Lookup(merged, "background", JNone),
     text_color |-> Lookup(merged, "text", JNone),
     card_bg |-> Lookup(merged, "card_bg", JNone),
     card_front_bg |-> Lookup(merged, "card_front_bg", Lookup(merged, "card_bg", JNone)),
     card_back_bg |-> Lookup(merged, "card_back_bg", Lookup(merged, "card_bg", JNone)),
     card_border |-> IF bool(Lookup(style_params, "card_border", JNone))
                        THEN style_params["card_border"]
                     ELSE Lookup(merged, "card_border", JNone)]

\* The context of template.render for the validated data and the layout.
PdfContext(data, layout) ==
    LET default_style == FLASHCARD_CONFIG.default_style
        style_params == PdfStyleParams(data.style, layout)
        theme == Lookup(style_params, "theme", Lookup(default_style, "theme", JStr(Light)))
        user_colors == IF bool(Lookup(style_params, "colors", JDict(<<>>)))
                          THEN style_params["colors"].map
                       ELSE <<>>
        processed_cards == ProcessedCards(data.cards, layout)
    IN  [template_content |-> ReadTemplate(PdfTemplate),
         title |-> IF data.metadata # JNone THEN data.metadata.title
                   ELSE JStr(DefaultPdfTitle),
         cards |-> processed_cards,
         total_cards |-> Len(processed_cards),
         theme |-> theme,
         theme_class |-> ThemeClass(theme),
         layout |-> layout,
         colors |-> PdfContextColors(style_params, PdfMergedColors(theme, user_colors)),
         compact_typography |->
            bool(Lookup(style_params, "compact_typography",
                        Lookup(default_style, "compact_typography", JBool(TRUE)))),
         show_deck_name |->
            bool(Lookup(style_params, "show_title",
                        Lookup(default_style, "show_title", JBool(FALSE)))),
         show_card_index |->
            bool(Lookup(style_params, "show_card_index",
                        Lookup(default_style, "show_card_index", JBool(FALSE)))),
         show_tags |->
            bool(Lookup(style_params, "show_tags",
                        Lookup(default_style, "show_tags", JBool(TRUE)))),
         deck_name_style |-> Lookup(style_params, "deck_name_style", JStr(<<>>)),
         card_index_style |-> Lookup(style_params, "card_index_style", JStr(<<>>)),
         style |-> style_params]

\* The key of FLASHCARD_CONFIG under which the style of the theme is found:
\* FLASHCARD_CONFIG.get(theme_style_key, FLASHCARD_CONFIG.get('default_style'))
DefaultStyleKey == <<"d", "e", "f", "a", "u", "l", "t", "_", "s", "t", "y", "l", "e">>

ThemeConfigKey(theme) ==
    IF theme.s \o ThemeStyleSuffix \in DOMAIN FLASHCARD_CONFIG.theme_styles
       THEN theme.s \o ThemeStyleSuffix
    ELSE DefaultStyleKey

\* Variant without the copy: default_colors is the colors dict of the theme's
\* style in FLASHCARD_CONFIG.
DefaultColorsObject_NoCopy(theme) == [in_config |-> TRUE, style_key |-> ThemeConfigKey(theme)]

\* The dict that default_colors names: theme_config.get('colors', ...).copy()
\* is a new dict of the call, no object of FLASHCARD_CONFIG.
DefaultColorsObject(theme) == [in_config |-> FALSE, style_key |-> <<>>]

\* The assignments `default_colors[key] = val` of the loop over user_colors
\* that reach a dict of FLASHCARD_CONFIG.
ColorWrites(theme, user_colors) ==
    IF DefaultColorsObject(theme).in_config
       THEN {[style_key |-> DefaultColorsObject(theme).style_key, key |-> key,
              value |-> NormalizedColor(user_colors[key])] : key \in DOMAIN user_colors}
    ELSE {}

\* The assignments of the style resolution to the dicts of FLASHCARD_CONFIG;
\* the reads of default_style (get, setdefault on style_params) assign nothing
\* to it.
PdfConfigWrites(style_params) ==
    ColorWrites(Lookup(style_params, "theme",
                       Lookup(FLASHCARD_CONFIG.default_style, "theme", JStr(Light))),
                IF bool(Lookup(style_params, "colors", JDict(<<>>)))
                   THEN style_params["colors"].map
                ELSE <<>>)

\* A colors dict after the assignments.
ColorsAfter(colors, writes) ==
    [key \in DOMAIN colors \cup {w.key : w \in writes} |->
        IF \E w \in writes : w.key = key
           THEN (CHOOSE w \in writes : w.key = key).value
        ELSE colors[key]]

\* The configuration after the assignments of one call.
ApplyConfigWrites(config, writes) ==
    IF writes = {} THEN config
    ELSE IF \E w \in writes : w.style_key = DefaultStyleKey
       THEN [config EXCEPT !.default_style.colors = ColorsAfter(@, writes)]
    ELSE [config EXCEPT
             !.theme_styles[(CHOOSE w \in writes : TRUE).style_key].colors =
                 ColorsAfter(@, writes)]

\* generate_flashcards_pdf_async after its entry check: data is what PdfData
\* returned or raised, html_content the rendering of the template.
PdfRendered(data, html_content, files, pdf_bytes) ==
    IF data.raised THEN [outcome |-> data, renders |-> <<>>]
    ELSE IF PdfTemplate \notin files
       THEN [outcome |-> Raise("TemplateNotFound", <<"playwright_card_template.html">>),
             renders |-> <<>>]
    ELSE IF ~pdf_bytes
       THEN [outcome |-> Raise("RuntimeError", <<"PDF generation failed">>),
             renders |-> <<html_content>>]
    ELSE [outcome |-> Return([pdf |-> html_content]), renders |-> <<html_content>>]

\* The call with the assignments it made to FLASHCARD_CONFIG: none before the
\* template is loaded.
PdfResolved(call, files, writes) ==
    [outcome |-> call.outcome, renders |-> call.renders,
     config_writes |-> IF PdfTemplate \in files THEN writes ELSE {}]

PdfFrom(data, layout, files, pdf_bytes) ==
    IF data.raised THEN [outcome |-> data, renders |-> <<>>, config_writes |-> {}]
    ELSE CHOOSE call \in
             {PdfResolved(PdfRendered(data, html_content, files, pdf_bytes), files,
                          PdfConfigWrites(html_content.style)) :
                 html_content \in {PdfContext(data.value, layout)}} : TRUE

\* The entry check is evaluated once and its result handed on.
generate_flashcards_pdf(flashcard_data, layout, files, pdf_bytes) ==
    CHOOSE call \in
        {PdfFrom(data, layout, files, pdf_bytes) : data \in {PdfData(flashcard_data)}} : TRUE

(***************************************************************************)
(* utils/csv_reader.py: convert_csv_to_json_data                           *)
(*                                                                         *)
(* A CSV file is [exists, readable, rows]: whether the path names a file,  *)
(* whether opening and reading it to the end succeeds, and the sequence of *)
(* rows csv.reader yields, each row a sequence of cells.                   *)
(* Column indices are 0-based as in the code.  The arguments are a record  *)
(* args with the parameters of the function as fields.                     *)
(***************************************************************************)
\* os.path.basename(file_path)
basename(file_path) ==
    LET slashes == {i \in 1..Len(file_path) : file_path[i] = "/"}
    IN  IF slashes = {} THEN file_path
        ELSE SubSeq(file_path, (CHOOSE i \in slashes : \A j \in slashes : j <= i) + 1,
                    Len(file_path))

\* os.path.splitext(name)[0]: name up to its last dot, a leading dot kept
splitext0(name) ==
    LET dots == {i \in 2..Len(name) : name[i] = "."}
    IN  IF dots = {} THEN name
        ELSE SubSeq(name, 1, (CHOOSE i \in dots : \A j \in dots : j <= i) - 1)

\* sep.join(parts)
RECURSIVE Join(_, _)
Join(parts, sep) ==
    IF parts = <<>> THEN <<>>
    ELSE IF Len(parts) = 1 THEN parts[1]
    ELSE parts[1] \o sep \o Join(Tail(parts), sep)

\* s.split(c) for a one-character separator c
RECURSIVE Split(_, _)
Split(s, c) ==
    LET hits == {i \in 1..Len(s) : s[i] = c}
    IN  IF hits = {} THEN <<s>>
        ELSE LET i == CHOOSE h \in hits : \A j \in hits : h <= j
             IN  <<SubSeq(s, 1, i - 1)>> \o Split(SubSeq(s, i + 1, Len(s)), c)

\* max(all_columns) if all_columns else 0
MaxIndex(all_columns) ==
    IF all_columns = <<>> THEN 0
    ELSE CHOOSE m \in {all_columns[i] : i \in 1..Len(all_columns)} :
            \A i \in 1..Len(all_columns) : all_columns[i] <= m

\* Variant of the column check with < in place of <=.
RowTooShort_Strict(row, max_index) == Len(row) < max_index

\* if len(row) <= max_index: continue
RowTooShort(row, max_index) == Len(row) <= max_index

\* Variant of the part of a column that keeps the cell as it is, blank or not.
ColumnPart_Untrimmed(row, col_idx) ==
    IF col_idx < Len(row) THEN <<row[col_idx + 1]>> ELSE <<>>

\* if col_idx < len(row) and row[col_idx].strip(): parts.append(row[col_idx].strip())
ColumnPart(row, col_idx) ==
    IF col_idx < Len(row) /\ Strip(row[col_idx + 1]) # <<>>
       THEN <<Strip(row[col_idx + 1])>>
    ELSE <<>>

\* for col_idx in columns: ...
RECURSIVE ColumnParts(_, _)
ColumnParts(row, columns) ==
    IF columns = <<>> THEN <<>>
    ELSE ColumnPart(row, Head(columns)) \o ColumnParts(row, Tail(columns))

\* Variant of the tag list that keeps the empty pieces.
TagList_KeepEmpty(tags_str) ==
    [k \in 1..Len(Split(tags_str, ",")) |-> Strip(Split(tags_str, ",")[k])]

\* [tag.strip() for tag in tags_str.split(',') if tag.strip()]
RECURSIVE StripNonEmpty(_)
StripNonEmpty(pieces) ==
    IF pieces = <<>> THEN <<>>
    ELSE (IF Strip(Head(pieces)) # <<>> THEN <<Strip(Head(pieces))>> ELSE <<>>)
         \o StripNonEmpty(Tail(pieces))

TagList(tags_str) == StripNonEmpty(Split(tags_str, ","))

\* The tags of the card of row: Absent when the key is not set.
RowTags(row, args) ==
    IF args.tags_column_index # JNone /\ Len(row) > args.tags_column_index.n
       THEN LET tags_str == Strip(row[args.tags_column_index.n + 1])
            IN  IF tags_str # <<>> /\ TagList(tags_str) # <<>>
                   THEN JList([k \in 1..Len(TagList(tags_str)) |-> JStr(TagList(tags_str)[k])])
                ELSE Absent
    ELSE Absent

\* The body of the row loop: the cards the row appends, none or one.
RowCards(row, args) ==
    LET all_columns ==
            args.front_columns \o args.back_columns
            \o (IF args.tags_column_index # JNone THEN <<args.tags_column_index.n>> ELSE <<>>)
        max_index == MaxIndex(all_columns)
        front_content == Join(ColumnParts(row, args.front_columns), args.column_separator)
        back_content == Join(ColumnParts(row, args.back_columns), args.column_separator)
    IN  IF row = <<>> THEN <<>>
        ELSE IF RowTooShort(row, max_index) THEN <<>>
        ELSE IF front_content = <<>> THEN <<>>
        ELSE <<JDict(Only([front |-> JStr(front_content), back |-> JStr(back_content),
                           tags |-> RowTags(row, args)]))>>

\* The rows after next(reader) skipped the header, if there is one to skip.
DataRows(rows, args) ==
    IF args.has_header /\ rows # <<>> THEN Tail(rows) ELSE rows

RECURSIVE FileCards(_, _)
FileCards(rows, args) ==
    IF rows = <<>> THEN <<>>
    ELSE RowCards(Head(rows), args) \o FileCards(Tail(rows), args)

\* Variant of the empty check that lets an empty card list through.
NoCards_Never(cards) == FALSE

\* if not cards
NoCards(cards) == cards = <<>>

\* Variant in which no error of the read reaches the except clauses.
ReadFails_Never(file) == FALSE

\* open() or the iteration of the reader raises an exception other than
\* FileNotFoundError (OSError, UnicodeDecodeError, csv.Error).
ReadFails(file) == ~file.readable

convert_csv_to_json_data(file_path, file, args) ==
    LET title == IF args.title = JNone THEN JStr(splitext0(basename(file_path)))
                 ELSE args.title
        cards == FileCards(DataRows(file.rows, args), args)
        flashcard_data ==
            JDict([metadata |->
                      JDict([title |-> title,
                             description |->
                                JStr(<<"F", "l", "a", "s", "h", "c", "a", "r", "d", "s", " ", "g", "e", "n", "e", "r", "a", "t", "e", "d", " ", "f", "r", "o", "m", " ">> \o basename(file_path)
                                     \o <<",", " ", "c", "a", "r", "d", "s", ":", " ">> \o DecStr(Len(cards)))]),
                   cards |-> JList(cards)])
    IN  IF ~file.exists
           THEN Raise("FileNotFoundError", <<"CSV file not found">>)
        ELSE IF ReadFails(file)
           THEN Raise("Exception", <<"error reading or processing the CSV file">>)
        ELSE IF NoCards(cards)
           THEN Raise("ValueError", <<"no valid data rows found in the CSV file">>)
        ELSE normalize_json_data(flashcard_data)

(***************************************************************************)
(* The assignments normalize_json_data makes to the objects reachable from *)
(* its argument.  A write is [card |-> position, key |-> k, value |-> v]:  *)
(* json_data["cards"][position - 1][k] = v.                                *)
(***************************************************************************)
\* Variant in which the id backfill assigns into the caller's card mappings.
InputWrites_BackfillInPlace(json_data) ==
    IF FlashcardData(json_data).raised THEN {}
    ELSE {[card |-> i, key |-> "id", value |-> GeneratedId(i - 1)] :
             i \in {j \in 1..Len(json_data.map["cards"].items) :
                       \/ "id" \notin DOMAIN json_data.map["cards"].items[j].map
                       \/ json_data.map["cards"].items[j].map["id"] = JNone}}

\* card.id = f"card-{i + 1}" assigns to the Card objects FlashcardData built,
\* result['metadata']['created_at'] to the dict model_dump built: no write
\* reaches json_data.
InputWrites(json_data) == {}

\* x after the writes were made
ApplyWrites(x, writes) ==
    IF writes = {} THEN x
    ELSE JDict([x.map EXCEPT !["cards"] =
                  JList([i \in 1..Len(@.items) |->
                            IF \E w \in writes : w.card = i
                               THEN WithKey(@.items[i], "id",
                                            (CHOOSE w \in writes : w.card = i).value)
                            ELSE @.items[i]])])

(***************************************************************************)
(* The inputs a caller passes: JSON documents and values that are not      *)
(* mappings.                                                               *)
(***************************************************************************)
FrontChars == {"a", " "}
FrontStrings == StrUpTo(FrontChars, MaxFrontLen)

\* A dict literal of a card; Absent leaves the key out.
CardLiteral(id, front, back, tags) ==
    JDict(Only([id |-> id, front |-> front, back |-> back, tags |-> tags]))

IdInputs ==
    {Absent, JNone, JStr(<<>>), JInt(7)}
    \cup {JStr(<<"c", "a", "r", "d", "-">> \o DecStr(k)) : k \in 1..MaxCards}

FrontInputs == {Absent, JNone} \cup {JStr(f) : f \in FrontStrings}

BackInputs == {Absent, JNone, JStr(<<>>), JStr(<<"b">>)}

TagsInputs == {Absent, JList(<<>>), JList(<<JStr(<<"t">>), JStr(<<"u">>)>>), JStr(<<"t">>)}

CardInputs ==
    {CardLiteral(id, JStr(<<"a">>), JStr(<<"b">>), Absent) : id \in IdInputs}
    \cup {CardLiteral(Absent, front, JStr(<<"b">>), Absent) : front \in FrontInputs}
    \cup {CardLiteral(Absent, JStr(<<" ", "a">>), back, tags) :
             back \in BackInputs, tags \in TagsInputs}
    \cup {JStr(<<"a">>)}

RECURSIVE ListsUpTo(_, _)
ListsUpTo(items, n) ==
    IF n = 0 THEN {<<>>}
    ELSE LET shorter == ListsUpTo(items, n - 1)
         IN  shorter \cup {Append(l, x) : l \in shorter, x \in items}

OneCard == JList(<<CardLiteral(Absent, JStr(<<"a">>), JStr(<<"b">>), Absent)>>)

CardsInputs ==
    {Absent, JNone, JStr(<<"a">>)} \cup {JList(l) : l \in ListsUpTo(CardInputs, MaxCards)}

DatetimeBody == <<"2", "0", "2", "3", "-", "0", "1", "-", "0", "1", "T", "0", "0", ":", "0", "0", ":", "0", "0">>

CreatedAtInputs ==
    {JNone, JStr(DatetimeBody), JStr(DatetimeBody \o <<"Z">>),
     JStr(DatetimeBody \o UtcOffsetZero), JStr(DatetimeBody \o <<"+", "0", "8", ":", "0", "0">>),
     JStr(<<"y", "e", "s", "t", "e", "r", "d", "a", "y">>), JList(<<>>)}

MetadataInputs ==
    {Absent, JNone, JStr(<<"a">>), JDict(<<>>),
     JDict([title |-> JStr(<<"T">>)]),
     JDict([title |-> JInt(7)]),
     JDict([title |-> JStr(<<"T">>), description |-> JStr(<<"D">>),
            version |-> JStr(<<"1", ".", "0">>), author |-> JStr(<<"A">>)])}
    \cup {JDict([created_at |-> c]) : c \in CreatedAtInputs}

\* Sample values of each Style key: valid ones, ones a validator rewrites, invalid ones.
StyleValueInputs(k) ==
    IF k \in {"show_deck_name", "show_card_index", "compact_typography"}
       THEN {JBool(TRUE), JBool(FALSE), JInt(1), JStr(<<"a">>)}
    ELSE IF k \in {"front_char_limit", "back_char_limit"}
       THEN {JNone, JInt(50), JStr(<<"5", "0">>), JStr(<<"a">>)}
    ELSE IF k = "colors"
       THEN {JDict(<<>>), JDict([primary |-> JStr(<<"0", "0", "7", "b", "f", "f">>)]),
             JDict([primary |-> JStr(<<"#", "0", "0", "7", "b", "f", "f">>), text |-> JStr(<<"3", "3", "3", "3", "3", "3">>)]), JStr(<<"a">>)}
    ELSE IF k = "theme"
       THEN {JStr(Light), JStr(Dark), JStr(Basic), JStr(Advance), JStr(Detail),
             JStr(<<"c", "u", "s", "t", "o", "m">>), JStr(<<>>), JInt(7)}
    ELSE IF k = "template"
       THEN {JStr(<<"m", "i", "n", "i", "m", "a", "l">>), JStr(<<"d", "e", "f", "a", "u", "l", "t">>), JStr(<<"n", "o", "s", "u", "c", "h">>), JInt(7)}
    ELSE IF k \in {"card_width", "card_height"}
       THEN {JStr(<<"3", "0", "0", "p", "x">>), JStr(<<" ", "7", "4", ".", "2", "5", "m", "m", " ">>), JStr(<<"5", "0", "%">>), JStr(<<"2", "r", "e", "m">>),
             JStr(<<"p", "x">>), JStr(<<"1", "0">>), JStr(<<"1", ".", "p", "x">>), JStr(<<"1", "0", " ", "p", "x">>), JStr(<<>>), JInt(7)}
    ELSE IF k \in {"card_border_radius", "card_padding"}
       THEN {JStr(<<"8", "p", "x">>), JStr(<<" ", "8", "p", "x", " ", " ", "4", "p", "x", " ">>), JStr(<<"1", ".", "5", "e", "m", " ", "2", "%">>), JStr(<<"8", "m", "m">>),
             JStr(<<"8", "p", "x", ",", "4", "p", "x">>), JStr(<<>>), JInt(7)}
    ELSE IF k \in {"card_front_text_align", "card_back_text_align"}
       THEN {JStr(<<"l", "e", "f", "t">>), JStr(<<"j", "u", "s", "t", "i", "f", "y">>), JStr(<<" ", "l", "e", "f", "t">>), JStr(<<"m", "i", "d", "d", "l", "e">>), JInt(7)}
    ELSE {JStr(<<"A", "r", "i", "a", "l">>), JStr(<<" ", "A", "r", "i", "a", "l", " ">>), JStr(<<" ">>), JStr(<<>>), JInt(7)}

StyleInputs ==
    {Absent, JNone, JStr(<<"a">>), JDict(<<>>)}
    \cup UNION {{JDict([j \in {StyleKeys[i]} |-> x]) : x \in StyleValueInputs(StyleKeys[i])} :
                   i \in 1..Len(StyleKeys)}
    \cup {JDict([theme |-> t, font |-> f, show_tags |-> JBool(TRUE), layout |-> JStr(<<"a", "4", "_", "8">>)]) :
             t \in {JStr(Dark), JStr(<<"c", "u", "s", "t", "o", "m">>)}, f \in {JStr(<<"A", "r", "i", "a", "l">>), JStr(<<>>)}}

\* Documents past a limit of JSON_VALIDATION_CONFIG: one card with one tag more
\* than max_tags_per_card, one card with a tag one character longer than
\* max_tag_length.
OverLimitDocuments ==
    {JDict([cards |-> JList(<<CardLiteral(Absent, JStr(<<"a">>), JStr(<<"b">>),
                JList([k \in 1..(JSON_VALIDATION_CONFIG.max_tags_per_card + 1) |->
                          JStr(<<"t">>)]))>>)]),
     JDict([cards |-> JList(<<CardLiteral(Absent, JStr(<<"a">>), JStr(<<"b">>),
                JList(<<JStr([k \in 1..(JSON_VALIDATION_CONFIG.max_tag_length + 1) |->
                                "t"])>>))>>)])}
\* The documents: every cards value with the other keys left out, and every
\* metadata and style value with one valid card.
Documents ==
    {JDict(Only([cards |-> c, metadata |-> Absent, style |-> Absent])) : c \in CardsInputs}
    \cup {JDict(Only([cards |-> OneCard, metadata |-> m, style |-> Absent])) :
             m \in MetadataInputs}
    \cup {JDict(Only([cards |-> OneCard, metadata |-> Absent, style |-> s])) :
             s \in StyleInputs}
    \cup {JDict([cards |-> OneCard, extra |-> JInt(7)]),
          JDict([metadata |-> JDict([title |-> JStr(<<"T">>)]),
                 cards |-> JList(<<CardLiteral(Absent, JStr(<<"a">>), Absent, Absent)>>)])}
    \cup OverLimitDocuments

\* Values that are not mappings.
NonMappings == {JNone, JList(<<>>), JStr(<<"a">>), JInt(7)}

Inputs == Documents \cup NonMappings

(***************************************************************************)
(* The state: one caller's input and the outcomes of the calls made on it.  *)
(***************************************************************************)
VARIABLES json_data, validation, normalized, renormalized

\* The templates directory, the outcomes of the two generators on json_data and
\* the renderings handed to a template so far.
VARIABLES template_files, html, pdf, rendered

generatorVars == <<template_files, html, pdf, rendered>>

\* json_data with one more key in its style or metadata mapping, and the
\* outcomes of validate and normalize on it.
VARIABLES with_unknown_key, validation_with_key, normalized_with_key

unknownKeyVars == <<with_unknown_key, validation_with_key, normalized_with_key>>

\* A CSV file as its rows of cells, the arguments of the conversion and its outcome.
VARIABLES csv_file, csv_args, converted

extractorVars == <<csv_file, csv_args, converted>>

\* The requests that POST /upload_csv is serving and the files of /tmp.
VARIABLES requests, tmp

uploadVars == <<requests, tmp>>

\* The FLASHCARD_CONFIG dictionary of the running process.
VARIABLES flashcard_config

vars == <<json_data, validation, normalized, renormalized, generatorVars,
          unknownKeyVars, extractorVars, uploadVars, flashcard_config>>

\* A call that has not been made yet.
Pending == [pending |-> TRUE]

\* The files of the templates directory as the repository ships it.
ShippedTemplates ==
    {FLASHCARD_CONFIG.available_templates[name].file_path :
        name \in DOMAIN FLASHCARD_CONFIG.available_templates} \cup {PdfTemplate}

\* No generator is called.
GeneratorsIdle ==
    /\ template_files = ShippedTemplates
    /\ html = Pending
    /\ pdf = Pending
    /\ rendered = <<>>

\* No document with an unknown key is around.
UnknownKeyIdle ==
    /\ with_unknown_key = Absent
    /\ validation_with_key = Pending
    /\ normalized_with_key = Pending

\* No CSV file is converted.
ExtractorIdle ==
    /\ csv_file = Absent
    /\ csv_args = Absent
    /\ converted = Pending

\* No upload is being served and /tmp holds no file of the server.
UploadsIdle ==
    /\ requests = <<>>
    /\ tmp = <<>>

\* The configuration as config.py defines it.
ConfigLoaded == flashcard_config = FLASHCARD_CONFIG

Init ==
    /\ json_data \in Inputs
    /\ validation = Pending
    /\ normalized = Pending
    /\ renormalized = Pending
    /\ GeneratorsIdle
    /\ UnknownKeyIdle
    /\ ExtractorIdle
    /\ UploadsIdle
    /\ ConfigLoaded

\* The caller calls validate_json_structure(json_data).
Validate ==
    /\ validation = Pending
    /\ validation' = validate_json_structure(json_data)
    /\ UNCHANGED <<json_data, normalized, renormalized, generatorVars,
                 unknownKeyVars, extractorVars, uploadVars, flashcard_config>>

\* The caller calls normalize_json_data(json_data).
Normalize ==
    /\ normalized = Pending
    /\ normalized' = normalize_json_data(json_data)
    /\ json_data' = ApplyWrites(json_data, InputWrites(json_data))
    /\ UNCHANGED <<validation, renormalized, generatorVars,
                   unknownKeyVars, extractorVars, uploadVars, flashcard_config>>

\* The caller passes the normalized document to normalize_json_data again.
Renormalize ==
    /\ normalized # Pending
    /\ ~normalized.raised
    /\ renormalized = Pending
    /\ renormalized' = normalize_json_data(normalized.value)
    /\ UNCHANGED <<json_data, validation, normalized, generatorVars,
                 unknownKeyVars, extractorVars, uploadVars, flashcard_config>>

Next == Validate \/ Normalize \/ Renormalize

Spec == Init /\ [][Next]_vars

(***************************************************************************)
(* The generators: one caller's document handed to the validator, the      *)
(* normalizer, the HTML generator and the PDF generator, over a templates  *)
(* directory that may lack files.                                          *)
(***************************************************************************)
\* The style test_csv_and_json_style_combination assigns to json_data["style"].
CustomStyle ==
    JDict([theme |-> JStr(<<"c", "u", "s", "t", "o", "m">>),
           font |-> JStr(<<"'", "N", "o", "t", "o", " ", "S", "a", "n", "s", " ", "C", "J", "K", " ", "S", "C", "'", ",", " ", "s", "a", "n", "s", "-", "s", "e", "r", "i", "f">>),
           colors |-> JDict([primary |-> JStr(<<"#", "4", "c", "a", "f", "5", "0">>),
                             secondary |-> JStr(<<"#", "f", "f", "9", "8", "0", "0">>),
                             background |-> JStr(<<"f", "5", "f", "5", "f", "5">>),
                             text |-> JStr(<<"2", "1", "2", "1", "2", "1">>),
                             card_bg |-> JStr(<<"f", "f", "f", "f", "f", "f">>),
                             card_border |-> JStr(<<"e", "0", "e", "0", "e", "0">>)])])

\* A document as convert_csv_to_json_data returns it for one row (the
\* normalized {"metadata": ..., "cards": ...}), its style replaced by style.
CsvDocumentWithStyle(style) ==
    LET flashcard_data ==
            JDict([metadata |-> JDict([title |-> JStr(<<"T">>), description |-> JStr(<<"D">>)]),
                   cards |-> JList(<<JDict([front |-> JStr(<<"a">>), back |-> JStr(<<"b">>),
                                            tags |-> JList(<<JStr(<<"t">>)>>)])>>)])
    IN  JDict([normalize_json_data(flashcard_data).value.map EXCEPT !["style"] = style])
\* Styles that name a theme and supply some colors: none, one without "#",
\* ones the templates take from the style's CSS values, and one that is no str.
ColorInputs ==
    {JDict(<<>>),
     JDict([primary |-> JStr(<<"1", "2", "3", "4", "5", "6">>)]),
     JDict([text |-> JStr(<<"#", "a", "b", "c", "d", "e", "f">>), card_front_bg |-> JStr(<<"#", "0", "0", "0", "0", "0", "0">>)]),
     JDict([card_border |-> JStr(<<"#", "f", "f", "0", "0", "0", "0">>), accent |-> JStr(<<"#", "0", "0", "f", "f", "0", "0">>)]),
     JDict([secondary |-> JInt(7)])}

ThemedStyleInputs ==
    {JDict([theme |-> JStr(theme), colors |-> colors]) :
        theme \in {Light, Dark, Basic, Advance, Detail}, colors \in ColorInputs}
\* The largest deck handed to the PDF generator: one card more than a page.
MaxDeck == 9

\* Decks of 1..MaxDeck cards whose fronts are their positions.
Decks ==
    {JDict([cards |-> JList([k \in 1..n |->
                CardLiteral(Absent, JStr(DecStr(k)), JStr(<<"b">>), Absent)])]) :
        n \in 1..MaxDeck}
\* Documents with at most one card, every metadata and style value,
\* CSV-derived documents with a style of the caller, themed styles, and decks
\* of up to MaxDeck cards.
GeneratorInputs ==
    {JDict(Only([cards |-> c, metadata |-> Absent, style |-> Absent])) :
        c \in {Absent, JList(<<>>)} \cup {JList(<<card>>) : card \in CardInputs}}
    \cup {JDict(Only([cards |-> OneCard, metadata |-> m, style |-> Absent])) :
             m \in MetadataInputs}
    \cup {JDict(Only([cards |-> OneCard, metadata |-> Absent, style |-> s])) :
             s \in StyleInputs}
    \cup {CsvDocumentWithStyle(style) : style \in {CustomStyle, JDict([theme |-> JStr(Dark)])}}
    \cup {JDict([cards |-> OneCard, style |-> s]) : s \in ThemedStyleInputs}
    \cup Decks
    \cup NonMappings

TemplateDirectories ==
    {ShippedTemplates, ShippedTemplates \ {TemplateMinimal \o HtmlExt}, {}}

InitGenerators ==
    /\ json_data \in GeneratorInputs
    /\ validation = Pending
    /\ normalized = Pending
    /\ renormalized = Pending
    /\ template_files \in TemplateDirectories
    /\ html = Pending
    /\ pdf = Pending
    /\ rendered = <<>>
    /\ UnknownKeyIdle
    /\ ExtractorIdle
    /\ UploadsIdle
    /\ ConfigLoaded

\* The caller calls generate_flashcards(json_data).
GenerateHtml ==
    /\ html = Pending
    /\ html' = generate_flashcards(json_data, template_files)
    /\ rendered' = IF html'.raised THEN rendered ELSE Append(rendered, html'.value)
    /\ UNCHANGED <<json_data, validation, normalized, renormalized, template_files, pdf,
                   unknownKeyVars, extractorVars, uploadVars, flashcard_config>>

Layouts == {"a4_8", "single"}

\* The caller calls generate_flashcards_pdf(json_data, layout); the browser
\* produces a document or not.
GeneratePdf ==
    /\ pdf = Pending
    /\ \E layout \in Layouts, pdf_bytes \in BOOLEAN :
          \E call \in {generate_flashcards_pdf(json_data, layout, template_files, pdf_bytes)} :
              /\ pdf' = call.outcome
              /\ rendered' = rendered \o call.renders
              /\ flashcard_config' = ApplyConfigWrites(flashcard_config, call.config_writes)
    /\ UNCHANGED <<json_data, validation, normalized, renormalized, template_files, html,
                   unknownKeyVars, extractorVars, uploadVars>>

NextGenerators == Validate \/ Normalize \/ GenerateHtml \/ GeneratePdf

SpecGenerators == InitGenerators /\ [][NextGenerators]_vars

(***************************************************************************)
(* Unknown keys: a document and the same document with one more key, which *)
(* class Style or class Metadata does not declare, in its style or         *)
(* metadata mapping; validate and normalize are called on both.            *)
(***************************************************************************)
\* Keys that neither class Style nor class Metadata declares.
UnknownKeys == {"show_tags", "layout", "x_future"}

UnknownKeyValues == {JNone, JInt(7), JStr(<<"a">>)}

\* The documents with a style or metadata mapping to add a key to.
UnknownKeyInputs ==
    {d \in Documents :
        \E part \in {"style", "metadata"} : Has(d, part) /\ IsDict(d.map[part])}

\* x with key |-> value added to its style or metadata mapping.
WithUnknownKey(x, part, key, value) ==
    JDict([x.map EXCEPT ![part] = WithKey(@, key, value)])

InitUnknownKeys ==
    /\ json_data \in UnknownKeyInputs
    /\ \E part \in {"style", "metadata"}, key \in UnknownKeys, value \in UnknownKeyValues :
          /\ Has(json_data, part)
          /\ IsDict(json_data.map[part])
          /\ key \notin DOMAIN json_data.map[part].map
          /\ with_unknown_key = WithUnknownKey(json_data, part, key, value)
    /\ validation = Pending
    /\ normalized = Pending
    /\ renormalized = Pending
    /\ validation_with_key = Pending
    /\ normalized_with_key = Pending
    /\ GeneratorsIdle
    /\ ExtractorIdle
    /\ UploadsIdle
    /\ ConfigLoaded

\* The caller calls validate_json_structure(with_unknown_key).
ValidateWithKey ==
    /\ validation_with_key = Pending
    /\ validation_with_key' = validate_json_structure(with_unknown_key)
    /\ UNCHANGED <<json_data, validation, normalized, renormalized, generatorVars,
                   with_unknown_key, normalized_with_key, extractorVars, uploadVars, flashcard_config>>

\* The caller calls normalize_json_data(with_unknown_key).
NormalizeWithKey ==
    /\ normalized_with_key = Pending
    /\ normalized_with_key' = normalize_json_data(with_unknown_key)
    /\ UNCHANGED <<json_data, validation, normalized, renormalized, generatorVars,
                   with_unknown_key, validation_with_key, extractorVars, uploadVars, flashcard_config>>

NextUnknownKeys == Validate \/ Normalize \/ ValidateWithKey \/ NormalizeWithKey

SpecUnknownKeys == InitUnknownKeys /\ [][NextUnknownKeys]_vars

(***************************************************************************)
(* The extractor: one CSV file and one set of arguments handed to          *)
(* convert_csv_to_json_data.                                               *)
(***************************************************************************)
\* The largest number of data rows of a file.
MaxRows == 2

CsvPath == <<"d", "a", "t", "a", "/", "d", "e", "c", "k", ".", "c", "s", "v">>

HeaderRow == <<<<"a">>, <<"b">>, <<"c">>>>

\* Rows: empty, short, full, with blank cells, with cells to trim and with
\* tag cells that have empty pieces.
RowInputs ==
    {<<>>,
     <<<<"x">>>>,
     <<<<"x">>, <<"y">>>>,
     <<<<"x">>, <<"y">>, <<"z">>>>,
     <<<<" ", "x", " ">>, <<>>, <<"t", ",", " ", "u">>>>,
     <<<<>>, <<"y">>, <<"t">>>>,
     <<<<" ">>, <<" ", "y">>, <<",", ",", " ">>>>,
     <<<<"x", " ", "y">>, <<"y">>, <<" ", ",", "t", ",", ",", "u", " ">>>>}

CsvFiles ==
    {[exists |-> TRUE, readable |-> TRUE, rows |-> header \o rows] :
        header \in {<<>>, <<HeaderRow>>}, rows \in ListsUpTo(RowInputs, MaxRows)}
    \cup {[exists |-> TRUE, readable |-> FALSE, rows |-> header \o rows] :
             header \in {<<>>, <<HeaderRow>>},
             rows \in {<<>>} \cup {<<row>> : row \in RowInputs}}
    \cup {[exists |-> FALSE, readable |-> FALSE, rows |-> <<>>]}

CsvArgs(title, front_columns, back_columns, tags_column_index, has_header, column_separator) ==
    [title |-> title, front_columns |-> front_columns, back_columns |-> back_columns,
     tags_column_index |-> tags_column_index, has_header |-> has_header,
     column_separator |-> column_separator]

\* Every column choice with the default separator and title; other
\* separators and a title of the caller with two front columns.
ArgInputs ==
    {CsvArgs(JNone, f, b, t, h, <<" ">>) :
        f \in {<<0>>, <<0, 1>>, <<1, 0>>}, b \in {<<1>>, <<2>>, <<>>},
        t \in {JNone, JInt(1), JInt(2)}, h \in BOOLEAN}
    \cup {CsvArgs(title, f, <<1>>, JInt(2), TRUE, sep) :
             title \in {JNone, JStr(<<"T">>)}, f \in {<<0, 1>>, <<1, 0>>},
             sep \in {<<"-">>, <<>>, <<",", " ">>}}

InitExtractor ==
    /\ csv_file \in CsvFiles
    /\ csv_args \in ArgInputs
    /\ converted = Pending
    /\ json_data = JNone
    /\ validation = Pending
    /\ normalized = Pending
    /\ renormalized = Pending
    /\ GeneratorsIdle
    /\ UnknownKeyIdle
    /\ UploadsIdle
    /\ ConfigLoaded

\* The caller calls convert_csv_to_json_data(CsvPath, ...).
ConvertCsv ==
    /\ converted = Pending
    /\ converted' = convert_csv_to_json_data(CsvPath, csv_file, csv_args)
    /\ UNCHANGED <<json_data, validation, normalized, renormalized, generatorVars,
                   unknownKeyVars, csv_file, csv_args, uploadVars, flashcard_config>>

NextExtractor == ConvertCsv

SpecExtractor == InitExtractor /\ [][NextExtractor]_vars

(***************************************************************************)
(* Vocabulary of the properties.                                           *)
(***************************************************************************)
Called(outcome) == outcome # Pending

\* validate_json_structure returned is_valid=True / is_valid=False.
SaysValid(outcome) == ~outcome.raised /\ outcome.value.map["is_valid"] = JBool(TRUE)
SaysInvalid(outcome) == ~outcome.raised /\ outcome.value.map["is_valid"] = JBool(FALSE)

\* normalize_json_data returned a document.
ReturnedDocument(outcome) == Called(outcome) /\ ~outcome.raised /\ IsDict(outcome.value)

\* The cards of a returned document, as a sequence of key-value maps.
OutCards(outcome) ==
    [k \in 1..Len(outcome.value.map["cards"].items) |->
        outcome.value.map["cards"].items[k].map]

\* The input is a mapping whose cards value is a list of card mappings.
HasCardList(x) ==
    /\ IsDict(x)
    /\ Has(x, "cards")
    /\ IsList(x.map["cards"])
    /\ \A k \in 1..Len(x.map["cards"].items) : IsDict(x.map["cards"].items[k])

InCards(x) == [k \in 1..Len(x.map["cards"].items) |-> x.map["cards"].items[k].map]

\* A str that is empty or has only whitespace characters.
IsBlank(x) == IsStr(x) /\ \A i \in 1..Len(x.s) : x.s[i] \in Whitespace

(***************************************************************************)
(* C1: validate_json_structure never raises: for every input (valid or     *)
(* invalid document, empty mapping, non-mapping value, None) it returns a  *)
(* result with exactly the fields is_valid and error; error is None        *)
(* exactly when is_valid is True and a non-empty message exactly when      *)
(* is_valid is False.                                                      *)
(***************************************************************************)
C1_ValidateNeverRaises ==
    Called(validation) =>
        /\ ~validation.raised
        /\ IsDict(validation.value)
        /\ DOMAIN validation.value.map = {"is_valid", "error"}
        /\ LET is_valid == validation.value.map["is_valid"]
               error == validation.value.map["error"]
           IN  /\ is_valid.t = "bool"
               /\ is_valid.b <=> error = JNone
               /\ ~is_valid.b <=> (error.t = "text" /\ error.lines # <<>>)

\* validate was called on None and answered.
C1_Witness == json_data = JNone /\ Called(validation) /\ SaysInvalid(validation)

(***************************************************************************)
(* C2: validate and normalize agree on every input: normalize raises       *)
(* exactly when validate returns is_valid=False, and returns a document    *)
(* exactly when validate returns is_valid=True.                            *)
(***************************************************************************)
C2_ValidateNormalizeAgree ==
    (Called(validation) /\ Called(normalized)) =>
        /\ normalized.raised <=> SaysInvalid(validation)
        /\ ReturnedDocument(normalized) <=> SaysValid(validation)

\* Both were called on a document that a field validator rejects.
C2_Witness ==
    /\ Called(validation) /\ Called(normalized)
    /\ IsDict(json_data) /\ Has(json_data, "style") /\ IsDict(json_data.map["style"])
    /\ normalized.raised
    /\ normalized.exc.type = "ValidationError"

(***************************************************************************)
(* C3: normalize is idempotent: for every valid document d,                *)
(* normalize(normalize(d)) equals normalize(d) field for field (cards,     *)
(* ids, metadata and every style value).                                   *)
(***************************************************************************)
C3_NormalizeIdempotent ==
    Called(renormalized) =>
        /\ ~renormalized.raised
        /\ renormalized.value = normalized.value

(***************************************************************************)
(* C4: every card of every document returned by normalize has a non-empty  *)
(* id, and no two cards of one normalized document have the same id,       *)
(* whatever mix of supplied and absent ids the input had.                  *)
(***************************************************************************)
C4_IdsNonEmptyUnique ==
    ReturnedDocument(normalized) =>
        LET cards == OutCards(normalized)
        IN  /\ \A k \in 1..Len(cards) : IsStr(cards[k]["id"]) /\ cards[k]["id"].s # <<>>
            /\ \A j, k \in 1..Len(cards) : j # k => cards[j]["id"] # cards[k]["id"]

(***************************************************************************)
(* C5: normalize maps cards pointwise and in order: the k-th output card   *)
(* (1-based) has the front, back and tags of the k-th input card (back ""  *)
(* and tags [] when the input leaves them out), and its id is the input id *)
(* verbatim when one was supplied and "card-k" otherwise; when no input    *)
(* card has an id, the output ids are card-1..card-n, pairwise distinct.   *)
(***************************************************************************)
SuppliedId(card) == "id" \in DOMAIN card /\ card["id"] # JNone

C5_CardsPointwise ==
    ReturnedDocument(normalized) =>
        LET ins == InCards(json_data)
            outs == OutCards(normalized)
        IN  /\ Len(outs) = Len(ins)
            /\ \A k \in 1..Len(outs) :
                  /\ DOMAIN outs[k] = {"id", "front", "back", "tags"}
                  /\ outs[k]["front"] = ins[k]["front"]
                  /\ outs[k]["back"] =
                        (IF "back" \in DOMAIN ins[k] THEN ins[k]["back"] ELSE JStr(<<>>))
                  /\ outs[k]["tags"] =
                        (IF "tags" \in DOMAIN ins[k] THEN ins[k]["tags"] ELSE JList(<<>>))
                  /\ outs[k]["id"] =
                        (IF SuppliedId(ins[k]) THEN ins[k]["id"]
                         ELSE JStr(<<"c", "a", "r", "d", "-">> \o DecStr(k)))
            /\ (\A k \in 1..Len(ins) : ~SuppliedId(ins[k])) =>
                  \A j, k \in 1..Len(outs) : j # k => outs[j]["id"] # outs[k]["id"]

\* A normalized deck of two cards, the first with a supplied id and the second without.
C5_Witness ==
    /\ ReturnedDocument(normalized)
    /\ Len(InCards(json_data)) = 2
    /\ SuppliedId(InCards(json_data)[1])
    /\ ~SuppliedId(InCards(json_data)[2])
    /\ OutCards(normalized)[2]["id"] = JStr(<<"c", "a", "r", "d", "-", "2">>)

(***************************************************************************)
(* C6: empty decks are rejected: validate returns is_valid=False for every *)
(* document whose cards list is empty or missing, so every document        *)
(* returned by normalize has at least one card.                            *)
(***************************************************************************)
EmptyDeck(x) ==
    IsDict(x) /\ (~Has(x, "cards") \/ x.map["cards"] = JList(<<>>))

C6_EmptyDeckRejected ==
    /\ (Called(validation) /\ EmptyDeck(json_data)) => SaysInvalid(validation)
    /\ ReturnedDocument(normalized) => Len(OutCards(normalized)) >= 1

\* validate was called on {"cards": []}.
C6_Witness ==
    /\ IsDict(json_data) /\ Has(json_data, "cards") /\ json_data.map["cards"] = JList(<<>>)
    /\ Called(validation) /\ Called(normalized)

(***************************************************************************)
(* C7: a document is invalid whenever one of its cards has a front that is *)
(* empty or only whitespace; hence every card of a normalized document has *)
(* a front whose stripped length is greater than 0.                        *)
(***************************************************************************)
HasBlankFront(x) ==
    /\ HasCardList(x)
    /\ \E k \in 1..Len(InCards(x)) :
          "front" \in DOMAIN InCards(x)[k] /\ IsBlank(InCards(x)[k]["front"])

C7_BlankFrontRejected ==
    /\ (Called(validation) /\ HasBlankFront(json_data)) => SaysInvalid(validation)
    /\ (Called(normalized) /\ HasBlankFront(json_data)) => normalized.raised
    /\ ReturnedDocument(normalized) =>
          \A k \in 1..Len(OutCards(normalized)) :
             /\ IsStr(OutCards(normalized)[k]["front"])
             /\ ~IsBlank(OutCards(normalized)[k]["front"])

\* validate and normalize were called on a deck with a front of one space.
C7_Witness ==
    /\ HasCardList(json_data)
    /\ \E k \in 1..Len(InCards(json_data)) :
          "front" \in DOMAIN InCards(json_data)[k]
          /\ InCards(json_data)[k]["front"] = JStr(<<" ">>)
    /\ Called(validation) /\ Called(normalized)

(***************************************************************************)
(* C8: normalize fills every optional field that the input omits: the      *)
(* output always contains metadata.title ("FlashCard"),                    *)
(* metadata.description (""), metadata.version ("1.0.0") and every         *)
(* recognized Style key of the data-model table at a concrete value, with  *)
(* style.theme "light" and style.template "minimal" by default.            *)
(***************************************************************************)
RecognizedStyleKeys ==
    {"template", "theme", "colors", "font", "card_front_font", "card_back_font",
     "card_width", "card_height", "card_front_text_align", "card_back_text_align",
     "card_border", "card_border_radius", "card_padding", "card_box_shadow",
     "show_deck_name", "show_card_index", "show_tags", "compact_typography",
     "front_char_limit", "back_char_limit"}

C8_DefaultsFilled ==
    (ReturnedDocument(normalized) /\ DOMAIN json_data.map = {"cards"}) =>
        LET out == normalized.value.map
        IN  /\ IsDict(out["metadata"])
            /\ {"title", "description", "version"} \subseteq DOMAIN out["metadata"].map
            /\ out["metadata"].map["title"] = JStr(<<"F", "l", "a", "s", "h", "C", "a", "r", "d">>)
            /\ out["metadata"].map["description"] = JStr(<<>>)
            /\ out["metadata"].map["version"] = JStr(<<"1", ".", "0", ".", "0">>)
            /\ IsDict(out["style"])
            /\ RecognizedStyleKeys \subseteq DOMAIN out["style"].map
            /\ \A k \in RecognizedStyleKeys \cap DOMAIN out["style"].map :
                  out["style"].map[k] # JNone
            /\ out["style"].map["theme"] = JStr(<<"l", "i", "g", "h", "t">>)
            /\ out["style"].map["template"] = JStr(<<"m", "i", "n", "i", "m", "a", "l">>)

(***************************************************************************)
(* C9: a card without a back field is accepted: validate returns           *)
(* is_valid=True for a document whose cards have only a non-blank front,   *)
(* and normalize gives such a card back = "".                              *)
(***************************************************************************)
FrontOnly(card) ==
    DOMAIN card = {"front"} /\ IsStr(card["front"]) /\ ~IsBlank(card["front"])

FrontOnlyDeck(x) ==
    /\ HasCardList(x)
    /\ DOMAIN x.map = {"cards"}
    /\ Len(InCards(x)) >= 1
    /\ \A k \in 1..Len(InCards(x)) : FrontOnly(InCards(x)[k])

OnlyCardLacksBack(x) ==
    /\ HasCardList(x)
    /\ Len(InCards(x)) = 1
    /\ "front" \in DOMAIN InCards(x)[1]
    /\ "back" \notin DOMAIN InCards(x)[1]

C10_MissingBackRejected ==
    (Called(validation) /\ OnlyCardLacksBack(json_data)) =>
        /\ SaysInvalid(validation)
        /\ validation.value.map["error"] # JNone

(***************************************************************************)
(* C11: theme gating.  A document whose style.theme is not a member of     *)
(* available_themes is rejected by every entry point: validate reports     *)
(* is_valid=False, normalize raises, HTML generation raises, PDF           *)
(* generation raises, and nothing is rendered for it.                      *)
(***************************************************************************)
AvailableThemes ==
    {JStr(FLASHCARD_CONFIG.available_themes[i]) :
        i \in 1..Len(FLASHCARD_CONFIG.available_themes)}

\* x is a document whose style mapping names a theme outside available_themes.
HasUnknownTheme(x) ==
    /\ IsDict(x)
    /\ Has(x, "style")
    /\ IsDict(x.map["style"])
    /\ Has(x.map["style"], "theme")
    /\ x.map["style"].map["theme"] \notin AvailableThemes

C12_CustomThemePdf ==
    (/\ json_data = CsvDocumentWithStyle(CustomStyle)
     /\ template_files = ShippedTemplates
     /\ Called(pdf))
        => (pdf.raised => pdf.exc.type = "RuntimeError")

(***************************************************************************)
(* C13: the configured size limits are enforced.  A document with more     *)
(* than max_cards cards, a front or back longer than max_content_length,   *)
(* more than max_tags_per_card tags on a card, or a tag longer than        *)
(* max_tag_length is rejected by validate and by normalize.                *)
(***************************************************************************)
TooLong(x, limit) == IsStr(x) /\ Len(x.s) > limit

CardExceedsLimits(card) ==
    \/ \E k \in {"front", "back"} :
          k \in DOMAIN card /\ TooLong(card[k], JSON_VALIDATION_CONFIG.max_content_length)
    \/ /\ "tags" \in DOMAIN card
       /\ IsList(card["tags"])
       /\ \/ Len(card["tags"].items) > JSON_VALIDATION_CONFIG.max_tags_per_card
          \/ \E i \in 1..Len(card["tags"].items) :
                TooLong(card["tags"].items[i], JSON_VALIDATION_CONFIG.max_tag_length)

ExceedsLimits(x) ==
    /\ IsDict(x)
    /\ Has(x, "cards")
    /\ IsList(x.map["cards"])
    /\ \/ Len(x.map["cards"].items) > JSON_VALIDATION_CONFIG.max_cards
       \/ \E i \in 1..Len(x.map["cards"].items) :
             /\ IsDict(x.map["cards"].items[i])
             /\ CardExceedsLimits(x.map["cards"].items[i].map)

C13_LimitsEnforced ==
    ExceedsLimits(json_data) =>
        /\ Called(validation) => SaysInvalid(validation)
        /\ Called(normalized) => normalized.raised

(***************************************************************************)
(* C14: template resolution fails fast.  When the document's               *)
(* style.template does not name a configured template, or the configured   *)
(* template file does not exist, HTML generation raises an error and the   *)
(* deck is never rendered with a substituted fallback template.            *)
(***************************************************************************)
\* The template a valid document x asks for has no file in files.
TemplateUnresolved(x, files) ==
    LET normalized_data == normalize_json_data(x)
        template == normalized_data.value.map["style"].map["template"].s
    IN  /\ ~normalized_data.raised
        /\ normalized_data.value.map["style"] # JNone
        /\ \/ template \notin DOMAIN FLASHCARD_CONFIG.available_templates
           \/ FLASHCARD_CONFIG.available_templates[template].file_path \notin files

C14_TemplateFailFast ==
    TemplateUnresolved(json_data, template_files) =>
        /\ Called(html) => html.raised
        /\ \A i \in 1..Len(rendered) : ~rendered[i].template_content.inline

(***************************************************************************)
(* C15: unknown keys do not interfere.  Adding an unrecognized key to the  *)
(* style mapping (or the metadata mapping) of a document changes neither   *)
(* the verdict of validate nor any field of the normalized output, and the *)
(* key is not a reason to reject the document.                             *)
(***************************************************************************)
C15_UnknownKeysIgnored ==
    /\ (Called(validation) /\ Called(validation_with_key)) =>
          validation_with_key = validation
    /\ (Called(normalized) /\ Called(normalized_with_key)) =>
          normalized_with_key = normalized

\* A valid document got the key show_tags in its style mapping, and both
\* documents were validated and normalized, the second one successfully.
C15_Witness ==
    /\ with_unknown_key # Absent
    /\ Has(json_data, "style")
    /\ IsDict(json_data.map["style"])
    /\ "show_tags" \in DOMAIN with_unknown_key.map["style"].map
    /\ "show_tags" \notin DOMAIN json_data.map["style"].map
    /\ Called(validation) /\ Called(validation_with_key) /\ SaysValid(validation_with_key)
    /\ Called(normalized) /\ ReturnedDocument(normalized_with_key)

ReferencedColumns(args) ==
    {args.front_columns[i] : i \in 1..Len(args.front_columns)}
    \cup {args.back_columns[i] : i \in 1..Len(args.back_columns)}
    \cup (IF args.tags_column_index = JNone THEN {} ELSE {args.tags_column_index.n})

LargestIndex(args) ==
    CHOOSE m \in ReferencedColumns(args) : \A c \in ReferencedColumns(args) : c <= m

\* row has fewer columns than the largest referenced index + 1.
IsShortRow(row, args) == Len(row) < LargestIndex(args) + 1

\* The rows of file after its header row, if the arguments say it has one.
DataRowsOf(file, args) ==
    IF args.has_header /\ file.rows # <<>> THEN Tail(file.rows) ELSE file.rows

\* The members of rows whose position has TRUE in keep, in order.
RECURSIVE Kept(_, _)
Kept(rows, keep) ==
    IF rows = <<>> THEN <<>>
    ELSE (IF Head(keep) THEN <<Head(rows)>> ELSE <<>>) \o Kept(Tail(rows), Tail(keep))

\* file with its short data rows taken out.
WithoutShortRows(file, args) ==
    LET rows == DataRowsOf(file, args)
        long == Kept(rows, [i \in 1..Len(rows) |-> ~IsShortRow(rows[i], args)])
    IN  [exists |-> file.exists, readable |-> file.readable,
         rows |-> IF args.has_header /\ file.rows # <<>> THEN <<Head(file.rows)>> \o long
                  ELSE long]

BlankCell(cell) == \A i \in 1..Len(cell) : cell[i] \in Whitespace

\* row is long enough and has a non-blank cell among its front columns.
YieldsCard(row, args) ==
    /\ ~IsShortRow(row, args)
    /\ \E i \in 1..Len(args.front_columns) : ~BlankCell(row[args.front_columns[i] + 1])

\* The data rows of file that yield a card, in file order.
YieldingRows(file, args) ==
    LET rows == DataRowsOf(file, args)
    IN  Kept(rows, [i \in 1..Len(rows) |-> YieldsCard(rows[i], args)])

(***************************************************************************)
(* C17: CSV ragged-row tolerance.  A data row with fewer columns than the  *)
(* largest referenced index (among front_columns, back_columns and the     *)
(* tags column) + 1 produces no card and no error, and every other row is  *)
(* processed as if the short row were absent: the conversion of a file     *)
(* equals the conversion of the file without its short data rows.          *)
(***************************************************************************)
C17_RaggedRowsSkipped ==
    (Called(converted) /\ csv_file.exists) =>
        converted = convert_csv_to_json_data(CsvPath, WithoutShortRows(csv_file, csv_args),
                                             csv_args)

\* Header a,b,c, rows x,y,z and x,y, front_columns [0], back_columns [2]: the
\* one card has front x and back z.
C17_Witness ==
    /\ csv_file = [exists |-> TRUE, readable |-> TRUE, rows |-> <<HeaderRow, <<<<"x">>, <<"y">>, <<"z">>>>, <<<<"x">>, <<"y">>>>>>]
    /\ csv_args = CsvArgs(JNone, <<0>>, <<2>>, JNone, TRUE, <<" ">>)
    /\ ReturnedDocument(converted)
    /\ Len(OutCards(converted)) = 1
    /\ OutCards(converted)[1]["front"] = JStr(<<"x">>)
    /\ OutCards(converted)[1]["back"] = JStr(<<"z">>)

(***************************************************************************)
(* C18: CSV total failure.  The conversion of a file that is read raises   *)
(* ValueError exactly when no data row yields a card (header-only file,    *)
(* empty file, all rows short or with an empty front); it never returns a  *)
(* document with zero cards and returns a document whenever a row yields a *)
(* card.                                                                   *)
(***************************************************************************)
C18_EmptyResultRaises ==
    (Called(converted) /\ csv_file.exists /\ csv_file.readable) =>
        /\ (converted.raised /\ converted.exc.type = "ValueError")
              <=> YieldingRows(csv_file, csv_args) = <<>>
        /\ YieldingRows(csv_file, csv_args) # <<>> => ~converted.raised
        /\ ~converted.raised => Len(OutCards(converted)) >= 1

\* A file with a header and no data row was converted: ValueError.
C18_Witness ==
    /\ csv_file = [exists |-> TRUE, readable |-> TRUE, rows |-> <<HeaderRow>>]
    /\ csv_args.has_header
    /\ Called(converted)
    /\ converted.raised
    /\ converted.exc.type = "ValueError"

(***************************************************************************)
(* C19: CSV field concatenation.  For every row that yields a card, front  *)
(* is the trimmed, non-empty cells at front_columns, in the order the      *)
(* indices are listed, joined with column_separator, and back is built the *)
(* same way from back_columns; every extracted card has a non-empty front. *)
(***************************************************************************)
\* The trimmed, non-empty cells of row at columns, in the order of columns.
RECURSIVE TrimmedCells(_, _)
TrimmedCells(row, columns) ==
    IF columns = <<>> THEN <<>>
    ELSE (IF BlankCell(row[Head(columns) + 1]) THEN <<>>
          ELSE <<Strip(row[Head(columns) + 1])>>)
         \o TrimmedCells(row, Tail(columns))

C19_FieldsJoined ==
    (Called(converted) /\ ~converted.raised) =>
        LET rows == YieldingRows(csv_file, csv_args)
            cards == OutCards(converted)
        IN  /\ Len(cards) = Len(rows)
            /\ \A k \in 1..Len(cards) :
                  /\ cards[k]["front"] =
                        JStr(Join(TrimmedCells(rows[k], csv_args.front_columns),
                                  csv_args.column_separator))
                  /\ cards[k]["back"] =
                        JStr(Join(TrimmedCells(rows[k], csv_args.back_columns),
                                  csv_args.column_separator))
                  /\ cards[k]["front"].s # <<>>

\* front_columns [1, 0] and separator "-" on the row " x ", "y", ...: the front
\* is y-x.
C19_Witness ==
    /\ Called(converted)
    /\ ~converted.raised
    /\ csv_args.front_columns = <<1, 0>>
    /\ csv_args.column_separator = <<"-">>
    /\ \E k \in 1..Len(OutCards(converted)) :
          OutCards(converted)[k]["front"] = JStr(<<"y", "-", "x", " ", "y">>)

(***************************************************************************)
(* C20: CSV tags.  When a tags column is configured, the tags of a card    *)
(* are the pieces of that cell split on ",", each trimmed, empty pieces    *)
(* dropped, in cell order; no extracted tag is empty or has leading or     *)
(* trailing whitespace, and a card whose tag cell is blank has no tags.    *)
(***************************************************************************)
\* The trimmed, non-empty members of pieces, in order.
RECURSIVE TrimmedPieces(_)
TrimmedPieces(pieces) ==
    IF pieces = <<>> THEN <<>>
    ELSE (IF BlankCell(Head(pieces)) THEN <<>> ELSE <<Strip(Head(pieces))>>)
         \o TrimmedPieces(Tail(pieces))

C20_TagsSplit ==
    (Called(converted) /\ ~converted.raised /\ csv_args.tags_column_index # JNone) =>
        LET rows == YieldingRows(csv_file, csv_args)
            cards == OutCards(converted)
        IN  /\ Len(cards) = Len(rows)
            /\ \A k \in 1..Len(cards) :
                  LET cell == rows[k][csv_args.tags_column_index.n + 1]
                      tags == cards[k]["tags"].items
                  IN  /\ tags = [i \in 1..Len(TrimmedPieces(Split(cell, ","))) |->
                                    JStr(TrimmedPieces(Split(cell, ","))[i])]
                      /\ \A i \in 1..Len(tags) :
                            tags[i].s # <<>> /\ Strip(tags[i].s) = tags[i].s
                      /\ BlankCell(cell) => tags = <<>>

\* The tag cell " ,t,,u " gave the tags t and u, and another card of the
\* conversion has a blank tag cell and no tags.
C20_Witness ==
    /\ Called(converted)
    /\ ~converted.raised
    /\ csv_args.tags_column_index = JInt(2)
    /\ \E k \in 1..Len(OutCards(converted)) :
          OutCards(converted)[k]["tags"] = JList(<<JStr(<<"t">>), JStr(<<"u">>)>>)
    /\ \E k \in 1..Len(OutCards(converted)) :
          OutCards(converted)[k]["tags"] = JList(<<>>)
(***************************************************************************)
(* C21: CSV failure kinds are distinguishable.  A file that does not exist *)
(* surfaces as FileNotFoundError and nothing else does; any other failure  *)
(* of the read surfaces as the Exception of the except clause and nothing  *)
(* else does; a file that is read and yields zero cards surfaces as        *)
(* ValueError and nothing else does.                                       *)
(***************************************************************************)
C21_FailureKinds ==
    Called(converted) =>
        /\ (converted.raised /\ converted.exc.type = "FileNotFoundError")
              <=> ~csv_file.exists
        /\ (converted.raised /\ converted.exc.type = "Exception")
              <=> (csv_file.exists /\ ~csv_file.readable)
        /\ (converted.raised /\ converted.exc.type = "ValueError")
              <=> (/\ csv_file.exists
                   /\ csv_file.readable
                   /\ YieldingRows(csv_file, csv_args) = <<>>)

\* A header-only file whose read fails: no card was collected, and the error
\* is the Exception of the read, not the ValueError of the empty result.
C21_Witness ==
    /\ csv_file = [exists |-> TRUE, readable |-> FALSE, rows |-> <<HeaderRow>>]
    /\ Called(converted)
    /\ converted.raised
    /\ converted.exc.type = "Exception"

(***************************************************************************)
(* Vocabulary of the style properties.                                     *)
(***************************************************************************)
\* The style mapping of the input document, the empty mapping when the
\* document has none.
UserStyle ==
    IF IsDict(json_data) /\ Has(json_data, "style") /\ IsDict(json_data.map["style"])
       THEN json_data.map["style"].map
    ELSE <<>>

\* The colors the user supplied.
UserColors ==
    IF "colors" \in DOMAIN UserStyle /\ IsDict(UserStyle["colors"])
       THEN UserStyle["colors"].map
    ELSE <<>>

\* The theme the user selected, light when none.
UserTheme == IF "theme" \in DOMAIN UserStyle THEN UserStyle["theme"] ELSE JStr(Light)

\* The color keys and the entry of the template context that carries each.
ContextKeyOf ==
    [primary |-> "primary_color", secondary |-> "secondary_color",
     background |-> "background_color", text |-> "text_color", card_bg |-> "card_bg",
     card_front_bg |-> "card_front_bg", card_back_bg |-> "card_back_bg",
     card_border |-> "card_border"]

ColorKeys == DOMAIN ContextKeyOf

\* A value as the user gave it or with "#" in front.
UserColorForms(val) == {val} \cup (IF IsStr(val) THEN {JStr(<<"#">> \o val.s)} ELSE {})

\* The color of key by precedence: the user's, else the selected theme's
\* entry of FLASHCARD_CONFIG, else that of default_style.
ColorsByPrecedence(key) ==
    IF key \in DOMAIN UserColors THEN UserColorForms(UserColors[key])
    ELSE IF IsStr(UserTheme)
            /\ UserTheme.s \o ThemeStyleSuffix \in DOMAIN FLASHCARD_CONFIG.theme_styles
            /\ key \in DOMAIN FLASHCARD_CONFIG.theme_styles[UserTheme.s \o ThemeStyleSuffix].colors
       THEN {FLASHCARD_CONFIG.theme_styles[UserTheme.s \o ThemeStyleSuffix].colors[key]}
    ELSE {FLASHCARD_CONFIG.default_style.colors[key]}

(***************************************************************************)
(* C22: color precedence.  In every rendering, HTML or PDF, and for every  *)
(* theme of available_themes, each color handed to the template is the     *)
(* user's value when the user supplied that key, otherwise the selected    *)
(* theme's default for that key, otherwise the global default.             *)
(***************************************************************************)
C22_ColorPrecedence ==
    \A i \in 1..Len(rendered) : \A key \in ColorKeys :
        rendered[i].colors[ContextKeyOf[key]] \in ColorsByPrecedence(key)

\* The same for the renderings of the PDF path alone.
C22_PdfColorPrecedence ==
    \A i \in 1..Len(rendered) : \A key \in ColorKeys \ {"card_border"} :
        "layout" \in DOMAIN rendered[i] =>
            rendered[i].colors[ContextKeyOf[key]] \in ColorsByPrecedence(key)

(***************************************************************************)
(* C23: color normalization.  Every color that the merge of the user's     *)
(* colors hands to the template starts with "#", and a user color given    *)
(* without "#" resolves to the same value as the same color given with     *)
(* "#": the resolved value is "#" followed by the color without its "#".   *)
(***************************************************************************)
\* The color keys whose context entry comes from the merged colors: all but
\* card_border for a PDF rendering, the first five for an HTML rendering.
MergedColorKeys(rendering) ==
    IF "layout" \in DOMAIN rendering THEN ColorKeys \ {"card_border"}
    ELSE {"primary", "secondary", "background", "text", "card_bg"}

\* A color without its leading "#".
WithoutHash(s) == IF StartsWith(s, <<"#">>) THEN Tail(s) ELSE s

C23_ColorsNormalized ==
    \A i \in 1..Len(rendered) : \A key \in MergedColorKeys(rendered[i]) :
        /\ IsStr(rendered[i].colors[ContextKeyOf[key]])
        /\ StartsWith(rendered[i].colors[ContextKeyOf[key]].s, <<"#">>)
        /\ (key \in DOMAIN UserColors /\ IsStr(UserColors[key])) =>
              rendered[i].colors[ContextKeyOf[key]]
                  = JStr(<<"#">> \o WithoutHash(UserColors[key].s))

\* The same for the documents whose colors are all of type str.
C23_StrColorsNormalized ==
    (\A key \in DOMAIN UserColors : IsStr(UserColors[key])) => C23_ColorsNormalized

(***************************************************************************)
(* C24: theme class derivation.  For every theme that validation accepts,  *)
(* the CSS class handed to the PDF template is "theme-" followed by the    *)
(* name of that theme (theme-light, theme-dark, theme-basic,               *)
(* theme-advance, theme-detail), so no theme gets the class of another.    *)
(***************************************************************************)
IsPdfRendering(rendering) == "theme_class" \in DOMAIN rendering

C24_ThemeClass ==
    \A i \in 1..Len(rendered) :
        IsPdfRendering(rendered[i]) =>
            /\ \E k \in 1..Len(FLASHCARD_CONFIG.available_themes) :
                  UserTheme = JStr(FLASHCARD_CONFIG.available_themes[k])
            /\ rendered[i].theme_class = <<"t", "h", "e", "m", "e", "-">> \o UserTheme.s

\* A PDF rendering of a document whose style selects the theme detail.
C24_Witness ==
    /\ UserTheme = JStr(Detail)
    /\ "theme" \in DOMAIN UserStyle
    /\ Len(rendered) >= 1
    /\ IsPdfRendering(rendered[Len(rendered)])
    /\ rendered[Len(rendered)].theme_class = <<"t", "h", "e", "m", "e", "-", "d", "e", "t", "a", "i", "l">>

(***************************************************************************)
(* C25: generate_flashcards never renders an invalid document.  For every  *)
(* input that validate_json_structure rejects, None and the empty mapping  *)
(* included, generate_flashcards raises the ValueError of its validation   *)
(* check, which comes before normalization and rendering, and no HTML      *)
(* rendering is made.                                                      *)
(***************************************************************************)
C25_InvalidNeverRendered ==
    (Called(validation) /\ SaysInvalid(validation) /\ Called(html)) =>
        /\ html.raised
        /\ html.exc.type = "ValueError"
        /\ html.exc.text = validation.value.map["error"].lines
        /\ \A i \in 1..Len(rendered) : IsPdfRendering(rendered[i])

\* generate_flashcards(None) and generate_flashcards({}) have raised.
C25_Witness ==
    /\ json_data \in {JNone, JDict(<<>>)}
    /\ Called(validation)
    /\ SaysInvalid(validation)
    /\ Called(html)
    /\ html.raised
    /\ rendered = <<>>

(***************************************************************************)
(* C26: non-color style values in PDF rendering.  Each display flag the    *)
(* user sets in style (show_deck_name, show_card_index, show_tags,         *)
(* compact_typography) reaches the template with the user's value, and a   *)
(* key the user omits (deck_name_style, card_index_style, show_tags) has   *)
(* the value of FLASHCARD_CONFIG['default_style'].                         *)
(***************************************************************************)
DisplayFlags == {"show_deck_name", "show_card_index", "show_tags", "compact_typography"}

C26_UserFlagsWin ==
    \A i \in 1..Len(rendered) :
        IsPdfRendering(rendered[i]) =>
            /\ \A key \in DisplayFlags :
                  (key \in DOMAIN UserStyle /\ UserStyle[key].t = "bool") =>
                      rendered[i][key] = UserStyle[key].b
            /\ \A key \in {"deck_name_style", "card_index_style"} :
                  key \notin DOMAIN UserStyle =>
                      rendered[i][key] = FLASHCARD_CONFIG.default_style[key]
            /\ "show_tags" \notin DOMAIN UserStyle =>
                  rendered[i].show_tags = FLASHCARD_CONFIG.default_style.show_tags.b

\* The flags that are fields of Style and are read under their own name.
C26_ReadFlagsWin ==
    \A i \in 1..Len(rendered) :
        IsPdfRendering(rendered[i]) =>
            \A key \in {"show_card_index", "compact_typography"} :
                (key \in DOMAIN UserStyle /\ UserStyle[key].t = "bool") =>
                    rendered[i][key] = UserStyle[key].b

(***************************************************************************)
(* C27: PDF a4_8 padding.  For a deck of n >= 1 cards and layout "a4_8"    *)
(* the list handed to the template has ((n + 7) div 8) * 8 entries: the n  *)
(* cards of the deck first, in deck order, then fewer than 8 blank cards   *)
(* (front and back empty), none when n is a multiple of 8.  For layout     *)
(* "single" the list has n entries.                                        *)
(***************************************************************************)
\* The number of cards of the input deck.
DeckSize == Len(json_data.map["cards"].items)

\* The entry of the list is the card at position k of the deck.
IsDeckCard(entry, k) ==
    /\ entry.front.parsed
    /\ entry.back.parsed
    /\ entry.front.text = FlashcardData(json_data).value.cards[k].front.s
    /\ entry.back.text = FlashcardData(json_data).value.cards[k].back.s

IsBlankCard(entry) ==
    /\ ~entry.front.parsed /\ entry.front.text = <<>>
    /\ ~entry.back.parsed /\ entry.back.text = <<>>

C27_PaddedToPages ==
    \A i \in 1..Len(rendered) :
        IsPdfRendering(rendered[i]) =>
            /\ DeckSize >= 1
            /\ Len(rendered[i].cards) =
                  IF rendered[i].layout = "a4_8" THEN ((DeckSize + 7) \div 8) * 8
                  ELSE DeckSize
            /\ rendered[i].total_cards = Len(rendered[i].cards)
            /\ Len(rendered[i].cards) - DeckSize < 8
            /\ \A k \in 1..Len(rendered[i].cards) :
                  IF k <= DeckSize THEN IsDeckCard(rendered[i].cards[k], k)
                  ELSE IsBlankCard(rendered[i].cards[k])

\* A deck of 9 cards in layout a4_8: 16 entries, the ninth the last card of
\* the deck, the tenth blank.
C27_Witness ==
    /\ Len(rendered) = 1
    /\ IsPdfRendering(rendered[1])
    /\ rendered[1].layout = "a4_8"
    /\ DeckSize = 9
    /\ Len(rendered[1].cards) = 16
    /\ rendered[1].cards[9].front.text = <<"9">>
    /\ IsBlankCard(rendered[1].cards[10])

(***************************************************************************)
(* src/main.py: upload_csv, and server.py: convert_csv_to_json             *)
(*                                                                         *)
(* /tmp is a mapping from the paths of its files to [content, writer]: the *)
(* rows of the CSV text and the request whose write made the file.  A      *)
(* request is a record of its parameters, its position pc, the json_data   *)
(* it holds across an await, and its response.  upload_csv runs on the     *)
(* event loop of the server process: the code between two awaits is one    *)
(* step.  The column parameters have their default values.                 *)
(***************************************************************************)
RECURSIVE Replace(_, _, _)
\* s.replace(old, new) for a non-empty old
Replace(s, old, new) ==
    IF Len(s) < Len(old) THEN s
    ELSE IF SubSeq(s, 1, Len(old)) = old
       THEN new \o Replace(SubSeq(s, Len(old) + 1, Len(s)), old, new)
    ELSE <<Head(s)>> \o Replace(Tail(s), old, new)

CsvExt == <<".", "c", "s", "v">>

\* temp_file_path = f"/tmp/{file.filename}"
UploadTempPath(filename) == <<"/", "t", "m", "p", "/">> \o filename

\* temp_file.name of tempfile.NamedTemporaryFile(suffix='.csv'): a name that no
\* other file of the directory has, here made from the number of the request
ToolTempPath(r) == <<"/", "t", "m", "p", "/", "t", "m", "p">> \o DecStr(r) \o CsvExt

\* os.path.exists(path)
Exists(files, path) == path \in DOMAIN files

\* with open(path, 'w') as f: f.write(content)
WriteFile(files, path, content, writer) ==
    [p \in DOMAIN files \cup {path} |->
        IF p = path THEN [content |-> content, writer |-> writer] ELSE files[p]]

\* os.remove(path) / os.unlink(path) of a file that exists
RemoveFile(files, path) == [p \in DOMAIN files \ {path} |-> files[p]]

\* open(path, 'r') as convert_csv_to_json_data sees it
OpenFile(files, path) ==
    IF Exists(files, path)
       THEN [exists |-> TRUE, readable |-> TRUE, rows |-> files[path].content]
    ELSE [exists |-> FALSE, readable |-> FALSE, rows |-> <<>>]

\* Variant of the cleanup that removes nothing.
RemoveTemp_Never(files, path) == [files |-> files, raised |-> FALSE]

\* Variant of the cleanup without the os.path.exists check: os.remove raises
\* FileNotFoundError when the file is gone.
RemoveTemp_Unguarded(files, path) ==
    [files |-> IF Exists(files, path) THEN RemoveFile(files, path) ELSE files,
     raised |-> ~Exists(files, path)]

\* finally: if os.path.exists(temp_file_path): os.remove(temp_file_path)
RemoveTemp(files, path) ==
    [files |-> IF Exists(files, path) THEN RemoveFile(files, path) ELSE files,
     raised |-> FALSE]

\* JSONResponse / StreamingResponse
Response(status_code, error, result) ==
    [status_code |-> status_code, error |-> error, result |-> result]

\* except Exception as e: JSONResponse(status_code=500, ...)
InternalServerError(exc) == Response(500, "INTERNAL_SERVER_ERROR", JText(exc.text))

\* The response of the try block, replaced by the error response when the
\* finally clause raised.
AfterCleanup(response, cleanup) ==
    IF cleanup.raised
       THEN InternalServerError([type |-> "FileNotFoundError",
                                 text |-> <<"No such file or directory">>])
    ELSE response

\* if not title: title = file.filename.replace('.csv', '')
UploadTitle(title, filename) ==
    IF ~bool(title) THEN JStr(Replace(filename, CsvExt, <<>>)) ELSE title

\* The request with its response set and nothing left to do.
Done(request, response) ==
    [request EXCEPT !.pc = "done", !.response = response]

\* upload_csv from the end of `await file.read()` to its return or to the
\* await of the PDF generator, for the json_data of the conversion.
UploadConverted(request, r, written, csv_data) ==
    LET path == UploadTempPath(request.filename)
        cleanup == RemoveTemp(written, path)
    IN  IF csv_data.raised
           THEN [request |-> Done(request, AfterCleanup(InternalServerError(csv_data.exc),
                                                        cleanup)),
                 files |-> cleanup.files]
        ELSE IF request.output_format = "json"
           THEN [request |-> Done(request, AfterCleanup(Response(200, "", csv_data.value),
                                                        cleanup)),
                 files |-> cleanup.files]
        ELSE IF request.output_format = "html"
           THEN [request |->
                    Done(request,
                         AfterCleanup(
                             CHOOSE response \in
                                 {IF html_content.raised
                                     THEN InternalServerError(html_content.exc)
                                  ELSE Response(200, "", html_content.value) :
                                     html_content \in
                                        {generate_flashcards(csv_data.value,
                                                             ShippedTemplates)}} : TRUE,
                             cleanup)),
                 files |-> cleanup.files]
        ELSE [request |-> [request EXCEPT !.pc = "rendering", !.json_data = csv_data.value],
              files |-> written]

\* upload_csv from its call to `await file.read()`: the checks of the
\* output format and of the file name.
UploadChecked(request) ==
    IF request.output_format \notin {"json", "html", "pdf"}
       THEN Done(request, Response(400, "INVALID_OUTPUT_FORMAT", JNone))
    ELSE IF request.filename = <<>> \/ ~EndsWith(request.filename, CsvExt)
       THEN Done(request, Response(400, "INVALID_FILE_TYPE", JNone))
    ELSE [request EXCEPT !.pc = "reading"]

\* upload_csv from the write of the temporary file on
UploadWritten(request, r, written) ==
    CHOOSE step \in
        {UploadConverted(request, r, written, csv_data) :
            csv_data \in
               {convert_csv_to_json_data(
                    UploadTempPath(request.filename),
                    OpenFile(written, UploadTempPath(request.filename)),
                    CsvArgs(UploadTitle(request.title, request.filename),
                            <<0>>, <<1, 2>>, JNone, TRUE, <<" ">>))}} : TRUE

\* upload_csv from the end of `await file.read()`
UploadRead(request, r, files) ==
    UploadWritten(request, r,
                  WriteFile(files, UploadTempPath(request.filename), request.content, r))

\* upload_csv from the end of `await generate_flashcards_pdf_async(...)`:
\* pdf_outcome is what the generator returned or raised.
UploadRendered(request, r, files, pdf_outcome) ==
    LET cleanup == RemoveTemp(files, UploadTempPath(request.filename))
    IN  [request |->
            Done(request,
                 AfterCleanup(IF pdf_outcome.raised THEN InternalServerError(pdf_outcome.exc)
                              ELSE Response(200, "", pdf_outcome.value),
                              cleanup)),
         files |-> cleanup.files]

\* datetime.now().isoformat(): the moment of the call
ToolCreatedAt == JStr(DatetimeBody)

\* complete_flashcard_data of convert_csv_to_json
CompleteFlashcardData(request, basic_data) ==
    LET light == request.theme = JStr(Light)
    IN  JDict([cards |-> basic_data.map["cards"],
               metadata |-> JDict([title |-> request.title,
                                   description |-> JStr(<<"F", "l", "a", "s", "h", "c", "a", "r", "d", "s", " ", "c", "o", "n", "v", "e", "r", "t", "e", "d", " ", "f", "r", "o", "m", " ", "C", "S", "V", " ", "d", "a", "t", "a">>),
                                   version |-> JStr(<<"1", ".", "0", ".", "0">>),
                                   created_at |-> ToolCreatedAt]),
               style |-> JDict([template |-> JStr(TemplateMinimal),
                                theme |-> request.theme,
                                colors |-> JDict(<<>>),
                                font |-> JStr(<<"A", "r", "i", "a", "l", ",", " ", "s", "a", "n", "s", "-", "s", "e", "r", "i", "f">>),
                                card_front_font |-> JStr(<<"2", "4", "p", "x", "/", "1", ".", "2", " ", "A", "r", "i", "a", "l", ",", " ", "s", "a", "n", "s", "-", "s", "e", "r", "i", "f">>),
                                card_back_font |-> JStr(<<"1", "8", "p", "x", "/", "1", ".", "2", " ", "A", "r", "i", "a", "l", ",", " ", "s", "a", "n", "s", "-", "s", "e", "r", "i", "f">>),
                                card_width |-> JStr(<<"3", "0", "0", "p", "x">>),
                                card_height |-> JStr(<<"2", "0", "0", "p", "x">>),
                                card_front_background |->
                                    JStr(IF light THEN <<"#", "f", "f", "f", "f", "f", "f">> ELSE <<"#", "2", "d", "2", "d", "2", "d">>),
                                card_back_background |->
                                    JStr(IF light THEN <<"#", "f", "5", "f", "5", "f", "5">> ELSE <<"#", "3", "d", "3", "d", "3", "d">>),
                                card_front_text_align |-> JStr(<<"c", "e", "n", "t", "e", "r">>),
                                card_back_text_align |-> JStr(<<"c", "e", "n", "t", "e", "r">>),
                                card_border |->
                                    JStr(IF light THEN <<"1", "p", "x", " ", "s", "o", "l", "i", "d", " ", "#", "d", "d", "d", "d", "d", "d">>
                                         ELSE <<"1", "p", "x", " ", "s", "o", "l", "i", "d", " ", "#", "5", "5", "5", "5", "5", "5">>),
                                card_border_radius |-> JStr(<<"8", "p", "x">>),
                                card_padding |-> JStr(<<"2", "0", "p", "x">>),
                                card_box_shadow |-> JStr(<<"0", " ", "2", "p", "x", " ", "4", "p", "x", " ", "r", "g", "b", "a", "(", "0", ",", "0", ",", "0", ",", "0", ".", "1", ")">>)])])

\* except Exception as e: raise ValueError(f"CSV conversion failed: {str(e)}")
ToolError(exc) == Raise("ValueError", <<"CSV conversion failed">> \o exc.text)

\* The try block of convert_csv_to_json after the conversion of the file.
ToolConverted(request, basic_data) ==
    IF basic_data.raised THEN ToolError(basic_data.exc)
    ELSE CHOOSE outcome \in
             {IF validation_result.raised THEN ToolError(validation_result.exc)
              ELSE IF ~validation_result.value.map["is_valid"].b
                 THEN ToolError([type |-> "ValueError",
                                 text |-> <<"Generated JSON structure validation failed">>
                                              \o validation_result.value.map["error"].lines])
              ELSE IF normalized_data.raised THEN ToolError(normalized_data.exc)
              ELSE Return([dumped |-> normalized_data.value]) :
                 validation_result \in
                    {validate_json_structure(CompleteFlashcardData(request, basic_data.value))},
                 normalized_data \in
                    {normalize_json_data(CompleteFlashcardData(request, basic_data.value))}} :
             TRUE

\* convert_csv_to_json: the temporary file is written, converted and unlinked.
ConvertTool(request, r, files) ==
    LET path == ToolTempPath(r)
        written == WriteFile(files, path, request.content, r)
    IN  [request |->
            Done(request,
                 CHOOSE outcome \in
                     {ToolConverted(request, basic_data) :
                         basic_data \in
                            {convert_csv_to_json_data(
                                 path, OpenFile(written, path),
                                 CsvArgs(request.title, <<0>>, <<1>>, JNone, TRUE, <<" ">>))}} :
                     TRUE),
         files |-> RemoveFile(written, path)]

(***************************************************************************)
(* Uploads: requests served by one server process.  Each request arrives   *)
(* with its parameters; upload_csv requests interleave at their awaits,    *)
(* and a call of the convert_csv_to_json tool is one step.                 *)
(***************************************************************************)
MaxRequests == 2

DeckCsv == <<"d", "e", "c", "k", ".", "c", "s", "v">>

\* The file of an upload: a header row and the data rows.
UploadA == <<HeaderRow, <<<<"x">>, <<"y">>, <<"z">>>>>>
UploadB == <<HeaderRow, <<<<"p">>, <<"q">>, <<"r">>>>>>
UploadHeaderOnly == <<HeaderRow>>

UploadRequest(filename, content, output_format) ==
    [endpoint |-> "upload_csv", filename |-> filename, title |-> JNone,
     content |-> content, output_format |-> output_format, theme |-> JStr(Light),
     pc |-> "received", json_data |-> JNone, response |-> Pending]

ToolRequest(content, theme) ==
    [endpoint |-> "convert_csv_to_json", filename |-> <<>>,
     title |-> JStr(<<"C", "S", "V", " ", "I", "m", "p", "o", "r", "t", "e", "d", " ", "F", "l", "a", "s", "h", "c", "a", "r", "d", "s">>),
     content |-> content, output_format |-> "json", theme |-> JStr(theme),
     pc |-> "called", json_data |-> JNone, response |-> Pending]

\* Uploads of one file name with different contents in every output format,
\* an upload without data rows, one of another name, one with a name and one
\* with an output format that upload_csv rejects, and calls of the tool.
RequestInputs ==
    {UploadRequest(DeckCsv, content, output_format) :
        content \in {UploadA, UploadB}, output_format \in {"json", "html", "pdf"}}
    \cup {UploadRequest(DeckCsv, UploadHeaderOnly, "pdf"),
          UploadRequest(<<"b", ".", "c", "s", "v">>, UploadA, "pdf"),
          UploadRequest(<<"n", "o", "t", "e", "s", ".", "t", "x", "t">>, UploadA, "html"),
          UploadRequest(DeckCsv, UploadA, "xml"),
          ToolRequest(UploadA, Dark),
          ToolRequest(UploadHeaderOnly, Light)}

InitUploads ==
    /\ requests \in [1..MaxRequests -> RequestInputs]
    /\ tmp = <<>>
    /\ json_data = JNone
    /\ validation = Pending
    /\ normalized = Pending
    /\ renormalized = Pending
    /\ GeneratorsIdle
    /\ UnknownKeyIdle
    /\ ExtractorIdle
    /\ ConfigLoaded

\* upload_csv is called and runs to `await file.read()` or to its return.
Receive(r) ==
    /\ requests[r].endpoint = "upload_csv"
    /\ requests[r].pc = "received"
    /\ requests' = [requests EXCEPT ![r] = UploadChecked(requests[r])]
    /\ UNCHANGED <<json_data, validation, normalized, renormalized, generatorVars,
                   unknownKeyVars, extractorVars, tmp, flashcard_config>>

\* The upload is read; upload_csv runs to the await of the PDF generator or
\* to its return.
Upload(r) ==
    /\ requests[r].endpoint = "upload_csv"
    /\ requests[r].pc = "reading"
    /\ \E step \in {UploadRead(requests[r], r, tmp)} :
          /\ requests' = [requests EXCEPT ![r] = step.request]
          /\ tmp' = step.files
    /\ UNCHANGED <<json_data, validation, normalized, renormalized, generatorVars,
                   unknownKeyVars, extractorVars, flashcard_config>>

\* The PDF generator returns or raises; upload_csv runs to its return.
FinishPdf(r) ==
    /\ requests[r].endpoint = "upload_csv"
    /\ requests[r].pc = "rendering"
    /\ \E pdf_bytes \in BOOLEAN :
          \E call \in {generate_flashcards_pdf(requests[r].json_data, "a4_8",
                                               template_files, pdf_bytes)} :
             \E step \in {UploadRendered(requests[r], r, tmp, call.outcome)} :
                /\ requests' = [requests EXCEPT ![r] = step.request]
                /\ tmp' = step.files
                /\ flashcard_config' = ApplyConfigWrites(flashcard_config, call.config_writes)
    /\ UNCHANGED <<json_data, validation, normalized, renormalized, generatorVars,
                   unknownKeyVars, extractorVars>>

\* convert_csv_to_json is called and returns or raises.
CallTool(r) ==
    /\ requests[r].endpoint = "convert_csv_to_json"
    /\ requests[r].pc = "called"
    /\ \E step \in {ConvertTool(requests[r], r, tmp)} :
          /\ requests' = [requests EXCEPT ![r] = step.request]
          /\ tmp' = step.files
    /\ UNCHANGED <<json_data, validation, normalized, renormalized, generatorVars,
                   unknownKeyVars, extractorVars, flashcard_config>>

NextUploads ==
    \E r \in 1..MaxRequests : Receive(r) \/ Upload(r) \/ FinishPdf(r) \/ CallTool(r)

SpecUploads == InitUploads /\ [][NextUploads]_vars

(***************************************************************************)
(* Vocabulary of the claims about uploads                                  *)
(***************************************************************************)
\* The request as it arrived.
Arrived(request) ==
    [request EXCEPT !.pc = IF request.endpoint = "upload_csv" THEN "received" ELSE "called",
                    !.json_data = JNone,
                    !.response = Pending]

\* The responses of an upload that awaits its PDF, served alone.
AloneRendered(step, r) ==
    {UploadRendered(step.request, r, step.files, call.outcome).request.response :
        call \in {generate_flashcards_pdf(step.request.json_data, "a4_8",
                                          ShippedTemplates, pdf_bytes) :
                     pdf_bytes \in BOOLEAN}}

\* The responses of an upload that was read, served alone.
AloneRead(step, r) ==
    IF step.request.pc = "done" THEN {step.request.response} ELSE AloneRendered(step, r)

\* The responses of an upload that was checked, served alone.
AloneChecked(checked, r) ==
    IF checked.pc = "done" THEN {checked.response}
    ELSE UNION {AloneRead(step, r) : step \in {UploadRead(checked, r, <<>>)}}

\* The responses the request can get when the server serves no other request
\* and /tmp holds no file: they depend on nothing but the request.
AloneResponses(request, r) ==
    IF request.endpoint = "upload_csv" THEN AloneChecked(UploadChecked(request), r)
    ELSE {ConvertTool(request, r, <<>>).request.response}

\* The request is served.
Served(r) == requests[r].pc = "done"

\* C28: in every interleaving of the requests, the same file name included,
\* the response of a served request is one the request gets when it is
\* served alone: it is computed from the request's own content, and no
\* write or removal of another request's temporary file makes it fail.
C28_OwnContentOnly ==
    \A r \in DOMAIN requests :
        Served(r) => requests[r].response \in AloneResponses(Arrived(requests[r]), r)

\* Request 2 uploaded other content under the file name of request 1, was
\* served and removed the file while request 1 awaits its PDF.
C28_Witness ==
    /\ requests # <<>>
    /\ requests[1].filename = DeckCsv /\ requests[1].content = UploadA
    /\ requests[1].pc = "rendering"
    /\ requests[2].endpoint = "upload_csv"
    /\ requests[2].filename = DeckCsv /\ requests[2].content = UploadB
    /\ Served(2) /\ requests[2].response.status_code = 200
    /\ tmp = <<>>

\* The path of the temporary file of the request.
TempPathOf(request, r) ==
    IF request.endpoint = "upload_csv" THEN UploadTempPath(request.filename)
    ELSE ToolTempPath(r)

\* The request creates its temporary file before its next return: it is
\* about to write the file or awaits after the write.
CreatesTemp(request) == request.pc \in {"reading", "rendering", "called"}

\* C30: when a request that created its temporary file completes, in any
\* output format, with an extraction error, an empty result or a rendering
\* error, the file does not exist.
C30_TempFilesRemoved ==
    [][\A r \in DOMAIN requests :
          (CreatesTemp(requests[r]) /\ requests'[r].pc = "done")
              => ~Exists(tmp', TempPathOf(requests[r], r))]_vars

\* A PDF upload whose rendering raised is served and /tmp is empty.
C30_Witness ==
    /\ requests # <<>>
    /\ requests[1].endpoint = "upload_csv"
    /\ requests[1].output_format = "pdf" /\ requests[1].content = UploadA
    /\ Served(1) /\ requests[1].response.status_code = 500
    /\ tmp = <<>>

(***************************************************************************)
(* Handlers: one process in which the caller validates, normalizes and     *)
(* renders a document with a style of its own, and converts a CSV file,    *)
(* in any order.                                                           *)
(***************************************************************************)
\* Documents with every theme and the user colors, and values that are no
\* document.
HandlerInputs ==
    {JDict([cards |-> OneCard, style |-> s]) : s \in ThemedStyleInputs} \cup NonMappings

\* A file with a header and one row, a file that cannot be read and a
\* missing file.
HandlerCsvFiles ==
    {[exists |-> TRUE, readable |-> TRUE, rows |-> UploadA],
     [exists |-> TRUE, readable |-> FALSE, rows |-> UploadA],
     [exists |-> FALSE, readable |-> FALSE, rows |-> <<>>]}

InitHandlers ==
    /\ json_data \in HandlerInputs
    /\ validation = Pending
    /\ normalized = Pending
    /\ renormalized = Pending
    /\ GeneratorsIdle
    /\ UnknownKeyIdle
    /\ csv_file \in HandlerCsvFiles
    /\ csv_args = CsvArgs(JNone, <<0>>, <<1>>, JInt(2), TRUE, <<" ">>)
    /\ converted = Pending
    /\ UploadsIdle
    /\ ConfigLoaded

NextHandlers == Validate \/ Normalize \/ ConvertCsv \/ GenerateHtml \/ GeneratePdf

SpecHandlers == InitHandlers /\ [][NextHandlers]_vars

====
